---------------------------- MODULE Spec2Model ----------------------------
(***************************************************************************)
(* Rangy TextRange module: visible-text computation over a DOM tree,       *)
(* character movement of range boundaries, character offsets and text      *)
(* search.  Two versions of the module live in the repository and both are *)
(* modelled; the variable impl says which one is running:                  *)
(*   "old" : src/src/js/modules/rangy-textrange-old.js                     *)
(*   "dev" : src/dev/rangy-textrange.js (the minified build, line 32)      *)
(***************************************************************************)
EXTENDS Integers, Sequences, FiniteSets, TLC

VARIABLES impl, doc, rs, re, lb, last, prev, iterator, calls

vars == <<impl, doc, rs, re, lb, last, prev, iterator, calls>>

(***************************************************************************)
(* Bounds of the exploration.                                              *)
(***************************************************************************)
MaxCount == 2

\* the longest text node and the longest child list of the trees
MaxLength == 6

Impls == {"old", "dev"}

(***************************************************************************)
(* The host tree.  A document is a sequence of node records; a node is its *)
(* index.  Node 1 is the Document, node 2 the body element.  disp, ws and  *)
(* vis are the computed display, white-space and visibility the style      *)
(* oracle reports for an element.                                          *)
(***************************************************************************)
ELEMENT_NODE == 1
TEXT_NODE == 3
PROCESSING_INSTRUCTION_NODE == 7
COMMENT_NODE == 8
DOCUMENT_NODE == 9
DOCUMENT_FRAGMENT_NODE == 11

Dc(kids) ==
  [type |-> DOCUMENT_NODE, tag |-> "#document", data |-> <<>>, disp |-> "",
   ws |-> "", vis |-> "", parent |-> 0, kids |-> kids]

El(tag, disp, ws, vis, parent, kids) ==
  [type |-> ELEMENT_NODE, tag |-> tag, data |-> <<>>, disp |-> disp,
   ws |-> ws, vis |-> vis, parent |-> parent, kids |-> kids]

Tx(data, parent) ==
  [type |-> TEXT_NODE, tag |-> "#text", data |-> data, disp |-> "",
   ws |-> "", vis |-> "", parent |-> parent, kids |-> <<>>]

Cm(data, parent) ==
  [type |-> COMMENT_NODE, tag |-> "#comment", data |-> data, disp |-> "",
   ws |-> "", vis |-> "", parent |-> parent, kids |-> <<>>]

Pi(target, parent) ==
  [type |-> PROCESSING_INSTRUCTION_NODE, tag |-> target, data |-> <<>>,
   disp |-> "", ws |-> "", vis |-> "", parent |-> parent, kids |-> <<>>]

Body(kids) == El("body", "block", "normal", "visible", 1, kids)

Docs ==
  << \* 1: a  b
     << Dc(<<2>>), Body(<<3>>), Tx(<<"a", " ", " ", "b">>, 2) >>,
     \* 2: 1 <br>2
     << Dc(<<2>>), Body(<<3, 4, 5>>), Tx(<<"1", " ">>, 2),
        El("br", "inline", "normal", "visible", 2, <<>>), Tx(<<"2">>, 2) >>,
     \* 3: <p>a </p><p>b</p>
     << Dc(<<2>>), Body(<<3, 5>>),
        El("p", "block", "normal", "visible", 2, <<4>>), Tx(<<"a", " ">>, 3),
        El("p", "block", "normal", "visible", 2, <<6>>), Tx(<<"b">>, 5) >>,
     \* 4: a<span style="display:none">x</span><script>y</script>
     \*    <i style="visibility:hidden">z</i><!--w-->b
     << Dc(<<2>>), Body(<<3, 4, 6, 8, 10, 11>>), Tx(<<"a">>, 2),
        El("span", "none", "normal", "visible", 2, <<5>>), Tx(<<"x">>, 4),
        El("script", "block", "normal", "visible", 2, <<7>>), Tx(<<"y">>, 6),
        El("i", "inline", "normal", "hidden", 2, <<9>>), Tx(<<"z">>, 8),
        Cm(<<"w">>, 2), Tx(<<"b">>, 2) >>,
     \* 5: a <span> b</span>
     << Dc(<<2>>), Body(<<3, 4>>), Tx(<<"a", " ">>, 2),
        El("span", "inline", "normal", "visible", 2, <<5>>),
        Tx(<<" ", "b">>, 4) >>,
     \* 6: a<span style="display:none"></span><p>x</p>
     << Dc(<<2>>), Body(<<3, 4, 5>>), Tx(<<"a">>, 2),
        El("span", "none", "normal", "visible", 2, <<>>),
        El("p", "block", "normal", "visible", 2, <<6>>), Tx(<<"x">>, 5) >>,
     \* 7: cab ab
     << Dc(<<2>>), Body(<<3>>),
        Tx(<<"c", "a", "b", " ", "a", "b">>, 2) >>,
     \* 8: A Cab
     << Dc(<<2>>), Body(<<3>>), Tx(<<"A", " ", "C", "a", "b">>, 2) >>,
     \* 9: <body style="white-space:pre-line">a \nb</body>
     << Dc(<<2>>), El("body", "block", "pre-line", "visible", 1, <<3>>),
        Tx(<<"a", " ", "\n", "b">>, 2) >>,
     \* 10: <body style="display:inline"><span> </span>b</body>, no block
     \*     element anywhere
     << Dc(<<2>>), El("body", "inline", "normal", "visible", 1, <<3, 5>>),
        El("span", "inline", "normal", "visible", 2, <<4>>),
        Tx(<<" ">>, 3), Tx(<<"b">>, 2) >>,
     \* 11: <p>a</p> <p>b<span> </span>c</p>
     << Dc(<<2>>), Body(<<3, 5, 6>>),
        El("p", "block", "normal", "visible", 2, <<4>>), Tx(<<"a">>, 3),
        Tx(<<" ">>, 2),
        El("p", "block", "normal", "visible", 2, <<7, 8, 10>>),
        Tx(<<"b">>, 6),
        El("span", "inline", "normal", "visible", 6, <<9>>), Tx(<<" ">>, 8),
        Tx(<<"c">>, 6) >>,
     \* 12: the text nodes " ", "a", a br, " ", an img, " ", "b" and a
     \*     processing instruction
     << Dc(<<2>>), Body(<<3, 4, 5, 6, 7, 8, 9, 10>>), Tx(<<" ">>, 2),
        Tx(<<"a">>, 2), El("br", "inline", "normal", "visible", 2, <<>>),
        Tx(<<" ">>, 2), El("img", "inline", "normal", "visible", 2, <<>>),
        Tx(<<" ">>, 2), Tx(<<"b">>, 2), Pi("xml-stylesheet", 2) >>
  >>

NDocs == Len(Docs)

Nodes(d) == 1 .. Len(Docs[d])

\* The functions of the module that many others call are applied by one
\* operator, Evaluate(fn, a), defined after the last of them: f(x) stands
\* for Evaluate("f", <<x>>), which is fBody(x), the translation of f.
RECURSIVE Evaluate(_, _)

NodeOf(d, n) == Evaluate("NodeOf", <<d, n>>)

NullPos == [node |-> 0, offset |-> 0]

Pos(n, o) == [node |-> n, offset |-> o]

\* node.parentNode (0 stands for null)
parentNode(d, n) == IF n = 0 THEN 0 ELSE NodeOf(d, n).parent

childNodes(d, n) == NodeOf(d, n).kids

\* node.childNodes[i], 0-based as in the source; 0 when there is none
childAt(d, n, i) ==
  IF i >= 0 /\ i < Len(childNodes(d, n)) THEN childNodes(d, n)[i + 1] ELSE 0

RECURSIVE IndexIn(_, _, _)
IndexIn(s, x, i) ==
  IF i > Len(s) THEN 0 ELSE IF s[i] = x THEN i ELSE IndexIn(s, x, i + 1)

\* dom.getNodeIndex: the number of preceding siblings
getNodeIndex(d, n) == IndexIn(childNodes(d, parentNode(d, n)), n, 1) - 1

\* dom.isCharacterDataNode
isCharacterDataNode(d, n) ==
  NodeOf(d, n).type \in {3, 4, COMMENT_NODE}

\* dom.getNodeLength
getNodeLength(d, n) ==
  IF isCharacterDataNode(d, n) THEN Len(NodeOf(d, n).data)
  ELSE Len(childNodes(d, n))

firstChild(d, n) == childAt(d, n, 0)

lastChild(d, n) == childAt(d, n, Len(childNodes(d, n)) - 1)

nextSibling(d, n) ==
  IF parentNode(d, n) = 0 THEN 0
  ELSE childAt(d, parentNode(d, n), getNodeIndex(d, n) + 1)

previousSibling(d, n) ==
  IF parentNode(d, n) = 0 THEN 0
  ELSE childAt(d, parentNode(d, n), getNodeIndex(d, n) - 1)


(***************************************************************************)
(* Character classes of the regular expressions of the module.             *)
(***************************************************************************)
\* spacesRegex /^[ \t\f\r\n]+$/ on one character
spacesRegex == {" ", "\t", "\f", "\r", "\n"}

\* spacesMinusLineBreaksRegex /^[ \t\f\r]+$/
spacesMinusLineBreaksRegex == {" ", "\t", "\f", "\r"}

\* allWhiteSpaceRegex, restricted to the characters of the model's alphabet
allWhiteSpaceRegex == {"\t", "\n", "\f", "\r", " "}

\* nonLineBreakWhiteSpaceRegex, restricted likewise
nonLineBreakWhiteSpaceRegex == {"\t", " "}

\* the classes /^[\t\n\r ]+$/ and /^[\t\r ]+$/ of isWhitespaceNode
wsNodeNormalChars == {"\t", "\n", "\r", " "}

wsNodePreLineChars == {"\t", "\r", " "}

AllIn(s, S) == \A i \in 1 .. Len(s) : s[i] \in S

(***************************************************************************)
(* Visibility and whitespace classifier.                                   *)
(***************************************************************************)
tableCssDisplayBlock == FALSE

defaultDisplayValueForTag(tag) ==
  CASE tag = "table" -> "table"
    [] tag = "caption" -> "table-caption"
    [] tag = "colgroup" -> "table-column-group"
    [] tag = "col" -> "table-column"
    [] tag = "thead" -> "table-header-group"
    [] tag = "tbody" -> "table-row-group"
    [] tag = "tfoot" -> "table-footer-group"
    [] tag = "tr" -> "table-row"
    [] tag \in {"td", "th"} -> "table-cell"
    [] OTHER -> ""

getComputedDisplay(d, n) ==
  LET display == NodeOf(d, n).disp
      tagName == NodeOf(d, n).tag
  IN IF display = "block" /\ tableCssDisplayBlock
        /\ defaultDisplayValueForTag(tagName) # ""
     THEN defaultDisplayValueForTag(tagName) ELSE display

isBlockNode(d, n) ==
  /\ n # 0
  /\ \/ /\ NodeOf(d, n).type = ELEMENT_NODE
        /\ getComputedDisplay(d, n)
             \notin {"inline", "inline-block", "inline-table", "none"}
     \/ NodeOf(d, n).type = DOCUMENT_NODE
     \/ NodeOf(d, n).type = DOCUMENT_FRAGMENT_NODE

containsPositions(d, n) ==
  \/ isCharacterDataNode(d, n)
  \/ NodeOf(d, n).tag \notin
       {"area", "base", "basefont", "br", "col", "frame", "hr", "img",
        "input", "isindex", "link", "meta", "param"}

RECURSIVE getAncestors(_, _)
getAncestors(d, n) ==
  IF parentNode(d, n) = 0 THEN <<>>
  ELSE getAncestors(d, parentNode(d, n)) \o <<parentNode(d, n)>>

getAncestorsAndSelf(d, n) == getAncestors(d, n) \o <<n>>

isHtmlElement(d, n, tagName) ==
  /\ n # 0
  /\ NodeOf(d, n).type = ELEMENT_NODE
  /\ NodeOf(d, n).tag = tagName

RECURSIVE nextNodeDescendants(_, _)
nextNodeDescendants(d, n) ==
  IF n = 0 THEN 0
  ELSE IF nextSibling(d, n) # 0 THEN nextSibling(d, n)
  ELSE nextNodeDescendants(d, parentNode(d, n))

nextNode(d, n) ==
  IF Len(childNodes(d, n)) > 0 THEN firstChild(d, n)
  ELSE nextNodeDescendants(d, n)

RECURSIVE getLastDescendantOrSelf(_, _)
getLastDescendantOrSelf(d, n) ==
  IF lastChild(d, n) # 0 THEN getLastDescendantOrSelf(d, lastChild(d, n))
  ELSE n

previousNode(d, n) ==
  IF previousSibling(d, n) # 0
  THEN getLastDescendantOrSelf(d, previousSibling(d, n))
  ELSE IF parentNode(d, n) # 0
          /\ NodeOf(d, parentNode(d, n)).type = ELEMENT_NODE
       THEN parentNode(d, n)
       ELSE 0

isHidden(d, n) ==
  LET ancestors == getAncestorsAndSelf(d, n)
  IN \E i \in 1 .. Len(ancestors) :
       /\ NodeOf(d, ancestors[i]).type = ELEMENT_NODE
       /\ getComputedDisplay(d, ancestors[i]) = "none"

isVisibilityHiddenTextNode(d, n) ==
  /\ NodeOf(d, n).type = TEXT_NODE
  /\ parentNode(d, n) # 0
  /\ NodeOf(d, parentNode(d, n)).vis = "hidden"

isWhitespaceNode(d, n) ==
  IF n = 0 \/ NodeOf(d, n).type # TEXT_NODE THEN FALSE
  ELSE IF NodeOf(d, n).data = <<>> THEN TRUE
  ELSE IF parentNode(d, n) = 0
          \/ NodeOf(d, parentNode(d, n)).type # ELEMENT_NODE THEN FALSE
  ELSE LET computedWhiteSpace == NodeOf(d, parentNode(d, n)).ws
           text == NodeOf(d, n).data
       IN \/ /\ AllIn(text, wsNodeNormalChars)
             /\ computedWhiteSpace \in {"normal", "nowrap"}
          \/ /\ AllIn(text, wsNodePreLineChars)
             /\ computedWhiteSpace = "pre-line"

\* "While ancestor is not a block node and its parent is not null, set
\*  ancestor to its parent."
RECURSIVE blockAncestor(_, _)
blockAncestor(d, a) ==
  IF ~isBlockNode(d, a) /\ parentNode(d, a) # 0
  THEN blockAncestor(d, parentNode(d, a)) ELSE a

\* The backward loop of isCollapsedWhitespaceNode (old): "T" when it returns
\* true, "F" when it leaves the loop, "X" when it dereferences a null
\* reference.
RECURSIVE scanBackward(_, _, _)
scanBackward(d, reference, ancestor) ==
  IF reference = ancestor THEN "F"
  ELSE LET r == previousNode(d, reference)
       IN IF isBlockNode(d, r) \/ isHtmlElement(d, r, "br") THEN "T"
          ELSE IF r = 0 THEN "X"
          ELSE IF (NodeOf(d, r).type = TEXT_NODE /\ ~isWhitespaceNode(d, r))
                  \/ isHtmlElement(d, r, "img") THEN "F"
          ELSE scanBackward(d, r, ancestor)

\* a forward loop that never meets a block node or a br
scanForwardBlind(d, reference, stop) == "F"

\* The forward loop of isCollapsedWhitespaceNode (old).
RECURSIVE scanForward(_, _, _)
scanForward(d, reference, stop) ==
  IF reference = stop THEN "F"
  ELSE IF reference = 0 THEN "X"
  ELSE LET r == nextNode(d, reference)
       IN IF isBlockNode(d, r) \/ isHtmlElement(d, r, "br") THEN "T"
          ELSE IF (r # 0 /\ NodeOf(d, r).type = TEXT_NODE
                   /\ ~isWhitespaceNode(d, r))
                  \/ isHtmlElement(d, r, "img") THEN "F"
          ELSE scanForward(d, r, stop)

\* isCollapsedWhitespaceNode; the dev build (function W) stops after the
\* display:none test.  TRUE also stands for the scans' "T".
isCollapsedWhitespaceNode(im, d, n) ==
  Evaluate("isCollapsedWhitespaceNode", <<im, d, n>>)

isCollapsedWhitespaceNodeBody(im, d, n) ==
  IF isCharacterDataNode(d, n) /\ NodeOf(d, n).data = <<>> THEN TRUE
  ELSE IF ~isWhitespaceNode(d, n) THEN FALSE
  ELSE IF parentNode(d, n) = 0 THEN TRUE
  ELSE IF isHidden(d, n) THEN TRUE
  ELSE IF im = "dev" THEN FALSE
  ELSE LET ancestor == blockAncestor(d, parentNode(d, n))
       IN IF scanBackward(d, n, ancestor) = "T" THEN TRUE
          ELSE scanForward(d, n, nextNodeDescendants(d, ancestor)) = "T"

\* isCollapsedWhitespaceNode raises: the backward loop of the old module
\* reads reference.nodeType after previousNode returned null
isCollapsedWhitespaceNodeRaises(im, d, n) ==
  /\ im = "old"
  /\ isWhitespaceNode(d, n)
  /\ NodeOf(d, n).data # <<>>
  /\ parentNode(d, n) # 0
  /\ ~isHidden(d, n)
  /\ scanBackward(d, n, blockAncestor(d, parentNode(d, n))) = "X"

\* an isCollapsedNode that knows only of collapsed whitespace
isCollapsedNodeWhitespaceOnly(im, d, n) ==
  isCollapsedWhitespaceNode(im, d, n)

isCollapsedNode(im, d, n) == Evaluate("isCollapsedNode", <<im, d, n>>)

isCollapsedNodeBody(im, d, n) ==
  \/ NodeOf(d, n).type = PROCESSING_INSTRUCTION_NODE
  \/ NodeOf(d, n).type = COMMENT_NODE
  \/ isHidden(d, n)
  \/ NodeOf(d, n).tag \in {"script", "style"}
  \/ isVisibilityHiddenTextNode(d, n)
  \/ isCollapsedWhitespaceNode(im, d, n)

\* an isIgnoredNode that also counts script and style elements and text
\* under visibility:hidden
isIgnoredNodeWide(d, n) ==
  \/ NodeOf(d, n).type = PROCESSING_INSTRUCTION_NODE
  \/ NodeOf(d, n).type = COMMENT_NODE
  \/ (NodeOf(d, n).type = ELEMENT_NODE /\ getComputedDisplay(d, n) = "none")
  \/ NodeOf(d, n).tag \in {"script", "style"}
  \/ isVisibilityHiddenTextNode(d, n)

isIgnoredNode(d, n) ==
  \/ NodeOf(d, n).type = PROCESSING_INSTRUCTION_NODE
  \/ NodeOf(d, n).type = COMMENT_NODE
  \/ (NodeOf(d, n).type = ELEMENT_NODE /\ getComputedDisplay(d, n) = "none")

\* the four classification functions called on node n one after the other:
\* their values, and whether one of them raised
classify(im, d, n) == Evaluate("classify", <<im, d, n>>)

classifyBody(im, d, n) ==
  [isCollapsedNode |-> isCollapsedNode(im, d, n),
   isIgnoredNode |-> isIgnoredNode(d, n),
   isWhitespaceNode |-> isWhitespaceNode(d, n),
   isCollapsedWhitespaceNode |-> isCollapsedWhitespaceNode(im, d, n),
   raised |-> isCollapsedWhitespaceNodeRaises(im, d, n)]

(***************************************************************************)
(* Position graph.                                                         *)
(***************************************************************************)
nextPosition(d, pos) ==
  LET node == pos.node
      offset == pos.offset
  IN IF node = 0 THEN NullPos
     ELSE IF offset = getNodeLength(d, node)
     THEN IF parentNode(d, node) # 0
          THEN Pos(parentNode(d, node), getNodeIndex(d, node) + 1)
          ELSE NullPos
     ELSE IF isCharacterDataNode(d, node) THEN Pos(node, offset + 1)
     ELSE IF containsPositions(d, childAt(d, node, offset))
          THEN Pos(childAt(d, node, offset), 0)
          ELSE Pos(node, offset + 1)

previousPosition(d, pos) ==
  LET node == pos.node
      offset == pos.offset
  IN IF node = 0 THEN NullPos
     ELSE IF offset = 0
     THEN IF parentNode(d, node) # 0
          THEN Pos(parentNode(d, node), getNodeIndex(d, node))
          ELSE NullPos
     ELSE IF isCharacterDataNode(d, node) THEN Pos(node, offset - 1)
     ELSE IF containsPositions(d, childAt(d, node, offset - 1))
          THEN Pos(childAt(d, node, offset - 1),
                   getNodeLength(d, childAt(d, node, offset - 1)))
          ELSE Pos(node, offset - 1)

nextVisiblePosition(im, d, pos) ==
  Evaluate("nextVisiblePosition", <<im, d, pos>>)

nextVisiblePositionBody(im, d, pos) ==
  LET next == nextPosition(d, pos)
  IN IF next = NullPos THEN NullPos
     ELSE IF isCollapsedNode(im, d, next.node)
     THEN Pos(parentNode(d, next.node), getNodeIndex(d, next.node) + 1)
     ELSE next

previousVisiblePosition(im, d, pos) ==
  Evaluate("previousVisiblePosition", <<im, d, pos>>)

previousVisiblePositionBody(im, d, pos) ==
  LET previous == previousPosition(d, pos)
  IN IF previous = NullPos THEN NullPos
     ELSE IF isCollapsedNode(im, d, previous.node)
     THEN Pos(parentNode(d, previous.node), getNodeIndex(d, previous.node))
     ELSE previous


(***************************************************************************)
(* Character options.  The old module reads collapseSpaceBeforeLineBreak,  *)
(* the dev build reads the three include* flags; a flag an options object  *)
(* does not carry is undefined there, which the code tests as false.       *)
(***************************************************************************)
CharOpts(c, b, t, p) ==
  [collapseSpaceBeforeLineBreak |-> c, includeSpaceBeforeBr |-> b,
   includeBlockContentTrailingSpace |-> t, includePreLineTrailingSpace |-> p]

\* defaultCharacterOptions of the running version
defaultCharacterOptions(im) ==
  IF im = "old" THEN CharOpts(TRUE, FALSE, FALSE, FALSE)
  ELSE CharOpts(FALSE, TRUE, TRUE, TRUE)

\* createOptions(characterOptions, defaultCharacterOptions) for a caller who
\* passes null (flip = FALSE) or an object that turns the handling of a
\* space before a line break the other way (flip = TRUE)
createOptions(im, flip) ==
  IF ~flip THEN defaultCharacterOptions(im)
  ELSE IF im = "old" THEN CharOpts(FALSE, FALSE, FALSE, FALSE)
  ELSE CharOpts(FALSE, FALSE, FALSE, TRUE)

\* the find options object, which findTextFromPosition hands to the
\* character iterator as its character options: it carries none of the flags
findOptionsAsCharacterOptions == CharOpts(FALSE, FALSE, FALSE, FALSE)

trailingSpaceInBlockCollapses == TRUE

trailingSpaceBeforeBrCollapses == TRUE

(***************************************************************************)
(* Character materializer, old module.                                     *)
(***************************************************************************)
\* the value standing for a TypeError raised while a character is computed
Throw == "<TypeError>"

TextPosition(character, position, isLeadingSpace, isTrailingSpace, isBr, collapsible) ==
  [character |-> character, position |-> position,
   isLeadingSpace |-> isLeadingSpace, isTrailingSpace |-> isTrailingSpace,
   isBr |-> isBr, collapsible |-> collapsible]

NoChar == TextPosition("", NullPos, FALSE, FALSE, FALSE, FALSE)

collapsesPrecedingSpace(tp) ==
  /\ tp.character = "\n"
  /\ \/ (tp.isBr /\ trailingSpaceBeforeBrCollapses)
     \/ (tp.isTrailingSpace /\ trailingSpaceInBlockCollapses)

getTextNodeProperties(d, textNode) ==
  LET cssWhitespace == NodeOf(d, parentNode(d, textNode)).ws
      preLine == (cssWhitespace = "pre-line")
  IN [spaceRegex |-> IF preLine THEN spacesMinusLineBreaksRegex
                     ELSE IF cssWhitespace \in {"normal", "nowrap"}
                     THEN spacesRegex ELSE {},
      collapseSpaces |-> preLine \/ cssWhitespace \in {"normal", "nowrap"},
      preLine |-> preLine]

\* text.charAt(i), 0-based; "" beyond the data
charAt(text, i) == IF i >= 0 /\ i < Len(text) THEN text[i + 1] ELSE ""

hasInnerTextOld(d, n) == Evaluate("hasInnerTextOld", <<d, n>>)
hasInnerTextOldBody(d, n) ==
  IF isCollapsedNode("old", d, n) THEN FALSE
  ELSE IF NodeOf(d, n).type = TEXT_NODE THEN TRUE
  ELSE \E i \in 1 .. Len(childNodes(d, n)) :
         hasInnerTextOld(d, childNodes(d, n)[i])

\* the loop over the children of an inline element in getTrailingSpace:
\* the last child that is not ignored, 0 when there is none
RECURSIVE lastNotIgnored(_, _)
lastNotIgnored(d, child) ==
  IF child = 0 THEN 0
  ELSE IF ~isIgnoredNode(d, child) THEN child
  ELSE lastNotIgnored(d, previousSibling(d, child))

\* the first position whose prepopulated character is definitely non-empty
\* (NON_SPACE or UNCOLLAPSIBLE_SPACE) when walking the visible positions of
\* the dev build from f to g
hasInnerTextDev(d, f, g, backward) ==
  Evaluate("hasInnerTextDev", <<d, f, g, backward>>)

getTrailingSpace(im, d, el) == Evaluate("getTrailingSpace", <<im, d, el>>)
getTrailingSpaceBody(im, d, el) ==
  IF NodeOf(d, el).tag = "br" THEN ""
  ELSE LET display == getComputedDisplay(d, el)
       IN IF display = "inline"
          THEN LET child == lastNotIgnored(d, lastChild(d, el))
               IN IF child # 0 /\ NodeOf(d, child).type = ELEMENT_NODE
                  THEN getTrailingSpace(im, d, child) ELSE ""
          ELSE IF display \in {"inline-block", "inline-table", "none",
                               "table-column", "table-column-group"}
          THEN ""
          ELSE IF display = "table-cell" THEN "\t"
          ELSE IF im = "old"
          THEN (IF hasInnerTextOld(d, el) THEN "\n" ELSE "")
          ELSE (IF hasInnerTextDev(d, Pos(parentNode(d, el),
                                          getNodeIndex(d, el) + 1),
                                   Pos(el, 0), TRUE)
                THEN "\n" ELSE "")

getLeadingSpace(im, d, el) == Evaluate("getLeadingSpace", <<im, d, el>>)

getLeadingSpaceBody(im, d, el) ==
  IF getComputedDisplay(d, el) \in
       {"inline", "inline-block", "inline-table", "none", "table-column",
        "table-column-group", "table-cell"}
  THEN ""
  ELSE IF im = "old" THEN (IF hasInnerTextOld(d, el) THEN "\n" ELSE "")
  ELSE (IF hasInnerTextDev(d, Pos(el, 0),
                           Pos(parentNode(d, el), getNodeIndex(d, el) + 1),
                           FALSE)
        THEN "\n" ELSE "")

\* getPossibleCharacterAt(pos, transaction): every caller passes two
\* arguments, so the third, options, is undefined inside, and reading
\* options.collapseSpaces raises a TypeError
getPossibleCharacterAt(d, pos) ==
  Evaluate("getPossibleCharacterAt", <<d, pos>>)

getPossibleCharacterAtBody(d, pos) ==
  LET node == pos.node
      offset == pos.offset
  IN IF offset = 0 THEN TextPosition("", pos, FALSE, FALSE, FALSE, FALSE)
     ELSE IF NodeOf(d, node).type = TEXT_NODE
     THEN LET text == NodeOf(d, node).data
              textChar == charAt(text, offset - 1)
              nodeInfo == getTextNodeProperties(d, node)
          IN IF nodeInfo.collapseSpaces
             THEN IF textChar \in nodeInfo.spaceRegex
                  THEN IF offset > 1
                          /\ charAt(text, offset - 2) \in nodeInfo.spaceRegex
                       THEN TextPosition("", pos, FALSE, FALSE, FALSE, TRUE)
                       ELSE IF nodeInfo.preLine /\ charAt(text, offset) = "\n"
                               /\ trailingSpaceBeforeBrCollapses
                       THEN TextPosition(Throw, pos, FALSE, FALSE, FALSE, TRUE)
                       ELSE TextPosition(" ", pos, FALSE, FALSE, FALSE, TRUE)
                  ELSE TextPosition(textChar, pos, FALSE, FALSE, FALSE, FALSE)
             ELSE TextPosition(textChar, pos, FALSE, FALSE, FALSE, FALSE)
     ELSE LET nodePassed == childAt(d, node, offset - 1)
              passed == nodePassed # 0
                        /\ NodeOf(d, nodePassed).type = ELEMENT_NODE
                        /\ ~isCollapsedNode("old", d, nodePassed)
              isBr == passed /\ NodeOf(d, nodePassed).tag = "br"
              trailing == IF passed /\ ~isBr
                          THEN getTrailingSpace("old", d, nodePassed) ELSE ""
              nxt == childAt(d, node, offset)
              leading == IF ~isBr /\ trailing = "" /\ nxt # 0
                            /\ NodeOf(d, nxt).type = ELEMENT_NODE
                            /\ ~isCollapsedNode("old", d, nxt)
                         THEN getLeadingSpace("old", d, nxt) ELSE ""
          IN IF isBr THEN TextPosition("\n", pos, FALSE, FALSE, TRUE, FALSE)
             ELSE IF trailing # ""
             THEN TextPosition(trailing, pos, FALSE, TRUE, FALSE, TRUE)
             ELSE IF leading # ""
             THEN TextPosition(leading, pos, TRUE, FALSE, FALSE, FALSE)
             ELSE TextPosition("", pos, FALSE, FALSE, FALSE, FALSE)

getNextPossibleCharacter(d, pos) ==
  Evaluate("getNextPossibleCharacter", <<d, pos>>)
getNextPossibleCharacterBody(d, pos) ==
  LET nextPos == nextVisiblePosition("old", d, pos)
  IN IF nextPos = NullPos THEN NoChar
     ELSE LET next == getPossibleCharacterAt(d, nextPos)
          IN IF next.character # "" THEN next
             ELSE getNextPossibleCharacter(d, nextPos)

\* the loop of getCharacterAt that works backwards until it has a non-space
\* character: the nearest preceding possible character (precedingChars'
\* last element), or Throw when a position it visits raises
precedingChar(d, pos, nearest) ==
  Evaluate("precedingChar", <<d, pos, nearest>>)
precedingCharBody(d, pos, nearest) ==
  LET previousPos == previousVisiblePosition("old", d, pos)
  IN IF previousPos = NullPos THEN nearest
     ELSE LET previous == getPossibleCharacterAt(d, previousPos)
              near == IF nearest = NoChar THEN previous ELSE nearest
          IN IF previous.character = Throw THEN previous
             ELSE IF previous.character = ""
             THEN precedingChar(d, previousPos, nearest)
             ELSE IF previous.character \notin {" ", "\n"} THEN near
             ELSE precedingChar(d, previousPos, near)

getCharacterAt(d, pos, options) ==
  Evaluate("getCharacterAt", <<d, pos, options>>)

getCharacterAtBody(d, pos, options) ==
  LET possible == getPossibleCharacterAt(d, pos)
      possibleChar == possible.character
      collapsed == [possible EXCEPT !.character = ""]
  IN IF possibleChar = "" \/ possibleChar \notin spacesRegex THEN possible
     ELSE LET preceding == precedingChar(d, pos, NoChar)
              next == getNextPossibleCharacter(d, pos)
          IN IF preceding.character = Throw THEN preceding
             ELSE IF possibleChar = " " /\ possible.collapsible
                     /\ (preceding = NoChar \/ preceding.isTrailingSpace
                         \/ preceding.character = "\n")
             THEN collapsed
             ELSE IF possible.collapsible
             THEN IF next.character = Throw THEN next
                  ELSE IF next = NoChar
                          \/ (next.character = "\n"
                              /\ options.collapseSpaceBeforeLineBreak
                              /\ collapsesPrecedingSpace(next))
                  THEN collapsed ELSE possible
             ELSE IF possibleChar = "\n"
             THEN IF next.character = Throw THEN next
                  ELSE IF next = NoChar \/ next.isTrailingSpace
                  THEN collapsed ELSE possible
             ELSE possible


(***************************************************************************)
(* Character materializer, dev build (the Position prototype, kb).         *)
(***************************************************************************)
EMPTY == "EMPTY"
NON_SPACE == "NON_SPACE"
UNCOLLAPSIBLE_SPACE == "UNCOLLAPSIBLE_SPACE"
COLLAPSIBLE_SPACE == "COLLAPSIBLE_SPACE"
TRAILING_SPACE_IN_BLOCK == "TRAILING_SPACE_IN_BLOCK"
TRAILING_SPACE_BEFORE_BR == "TRAILING_SPACE_BEFORE_BR"
PRE_LINE_TRAILING_SPACE_BEFORE_LINE_BREAK ==
  "PRE_LINE_TRAILING_SPACE_BEFORE_LINE_BREAK"

DevChar(character, characterType, isBr, isCharInvariant, cts, cls) ==
  [character |-> character, characterType |-> characterType, isBr |-> isBr,
   isCharInvariant |-> isCharInvariant, checkForTrailingSpace |-> cts,
   checkForLeadingSpace |-> cls]

prepopulateChar(d, pos) == Evaluate("prepopulateChar", <<d, pos>>)

prepopulateCharBody(d, pos) ==
  LET node == pos.node
      offset == pos.offset
  IN IF offset = 0 THEN DevChar("", EMPTY, FALSE, FALSE, FALSE, FALSE)
     ELSE IF NodeOf(d, node).type = TEXT_NODE
     THEN LET text == NodeOf(d, node).data
              textChar == charAt(text, offset - 1)
              nodeInfo == getTextNodeProperties(d, node)
          IN IF nodeInfo.collapseSpaces
             THEN IF textChar \in nodeInfo.spaceRegex
                  THEN IF offset > 1
                          /\ charAt(text, offset - 2) \in nodeInfo.spaceRegex
                       THEN DevChar("", EMPTY, FALSE, FALSE, FALSE, FALSE)
                       ELSE IF nodeInfo.preLine /\ charAt(text, offset) = "\n"
                       THEN DevChar(" ",
                                    PRE_LINE_TRAILING_SPACE_BEFORE_LINE_BREAK,
                                    FALSE, FALSE, FALSE, FALSE)
                       ELSE DevChar(" ", COLLAPSIBLE_SPACE, FALSE, FALSE,
                                    FALSE, FALSE)
                  ELSE DevChar(textChar, NON_SPACE, FALSE, TRUE, FALSE, FALSE)
             ELSE DevChar(textChar, UNCOLLAPSIBLE_SPACE, FALSE, TRUE, FALSE,
                          FALSE)
     ELSE LET nodePassed == childAt(d, node, offset - 1)
              passed == nodePassed # 0
                        /\ NodeOf(d, nodePassed).type = ELEMENT_NODE
                        /\ ~isCollapsedNode("dev", d, nodePassed)
              isBr == passed /\ NodeOf(d, nodePassed).tag = "br"
              nxt == childAt(d, node, offset)
              cls == ~isBr /\ nxt # 0
                     /\ NodeOf(d, nxt).type = ELEMENT_NODE
                     /\ ~isCollapsedNode("dev", d, nxt)
          IN IF isBr
             THEN DevChar("\n", COLLAPSIBLE_SPACE, TRUE, FALSE, FALSE, FALSE)
             ELSE DevChar("", EMPTY, FALSE, FALSE, passed, cls)

isDefinitelyNonEmpty(c) ==
  c.characterType \in {NON_SPACE, UNCOLLAPSIBLE_SPACE}

hasInnerTextDevBody(d, f, g, backward) ==
  IF f = g \/ f = NullPos THEN FALSE
  ELSE IF isDefinitelyNonEmpty(prepopulateChar(d, f)) THEN TRUE
  ELSE hasInnerTextDev(d, IF backward
                          THEN previousVisiblePosition("dev", d, f)
                          ELSE nextVisiblePosition("dev", d, f),
                       g, backward)

\* the position after resolveLeadingAndTrailingSpaces, as a TextPosition
\* that also carries characterType and isCharInvariant
resolveLeadingAndTrailingSpaces(d, pos) ==
  Evaluate("resolveLeadingAndTrailingSpaces", <<d, pos>>)

resolveLeadingAndTrailingSpacesBody(d, pos) ==
  LET c == prepopulateChar(d, pos)
      trailing == IF c.checkForTrailingSpace
                  THEN getTrailingSpace("dev", d,
                                        childAt(d, pos.node, pos.offset - 1))
                  ELSE ""
      leading == IF c.checkForLeadingSpace
                 THEN getLeadingSpace("dev", d,
                                      childAt(d, pos.node, pos.offset))
                 ELSE ""
  IN [character |-> IF leading # "" THEN leading
                    ELSE IF trailing # "" THEN trailing ELSE c.character,
      position |-> pos,
      isLeadingSpace |-> leading # "",
      isTrailingSpace |-> trailing # "",
      isBr |-> c.isBr,
      collapsible |-> (leading # "" \/ trailing # ""
                       \/ c.characterType = COLLAPSIBLE_SPACE),
      characterType |-> IF leading # "" \/ trailing # ""
                        THEN COLLAPSIBLE_SPACE ELSE c.characterType,
      isCharInvariant |-> c.isCharInvariant]

NoDevChar ==
  [character |-> "", position |-> NullPos, isLeadingSpace |-> FALSE,
   isTrailingSpace |-> FALSE, isBr |-> FALSE, collapsible |-> FALSE,
   characterType |-> EMPTY, isCharInvariant |-> FALSE]

nextUncollapsed(d, pos) == Evaluate("nextUncollapsed", <<d, pos>>)
nextUncollapsedBody(d, pos) ==
  LET b == nextVisiblePosition("dev", d, pos)
  IN IF b = NullPos THEN NoDevChar
     ELSE LET r == resolveLeadingAndTrailingSpaces(d, b)
          IN IF r.character # "" THEN r ELSE nextUncollapsed(d, b)

getCharacter(d, pos, options) == Evaluate("getCharacter", <<d, pos, options>>)
getPrecedingUncollapsedPosition(d, pos, options) ==
  Evaluate("getPrecedingUncollapsedPosition", <<d, pos, options>>)

getPrecedingUncollapsedPositionBody(d, pos, options) ==
  LET b == previousVisiblePosition("dev", d, pos)
  IN IF b = NullPos THEN NoDevChar
     ELSE IF getCharacter(d, b, options) # ""
     THEN resolveLeadingAndTrailingSpaces(d, b)
     ELSE getPrecedingUncollapsedPosition(d, b, options)

getCharacterBody(d, pos, options) ==
  LET this == resolveLeadingAndTrailingSpaces(d, pos)
  IN IF this.isCharInvariant THEN this.character
     ELSE IF this.characterType # COLLAPSIBLE_SPACE THEN ""
     ELSE IF this.character = " "
             /\ LET g == getPrecedingUncollapsedPosition(d, pos, options)
                IN g = NoDevChar \/ g.isTrailingSpace \/ g.character = "\n"
     THEN ""
     ELSE IF this.character = "\n" /\ this.isLeadingSpace
     THEN LET g == getPrecedingUncollapsedPosition(d, pos, options)
          IN IF g # NoDevChar /\ g.character # "\n" THEN "\n" ELSE ""
     ELSE LET f == nextUncollapsed(d, pos)
              type == IF f.isBr THEN TRAILING_SPACE_BEFORE_BR
                      ELSE IF f.isTrailingSpace /\ f.character = "\n"
                      THEN TRAILING_SPACE_IN_BLOCK ELSE ""
          IN IF f = NoDevChar THEN ""
             ELSE IF f.character # "\n" THEN this.character
             ELSE IF type = TRAILING_SPACE_BEFORE_BR
                     /\ ~options.includeSpaceBeforeBr THEN ""
             ELSE IF type = TRAILING_SPACE_IN_BLOCK /\ f.isTrailingSpace
                     /\ ~options.includeBlockContentTrailingSpace THEN ""
             ELSE IF this.character = "\n"
             THEN (IF f.isTrailingSpace THEN "" ELSE "\n")
             ELSE IF this.character = " " THEN " "
             ELSE ""

(***************************************************************************)
(* The character at a position as the running version's iterator sees it:  *)
(* a TextPosition whose character is empty when nothing is visible there.  *)
(***************************************************************************)
materialize(im, d, pos, options) ==
  IF im = "old" THEN getCharacterAt(d, pos, options)
  ELSE LET r == resolveLeadingAndTrailingSpaces(d, pos)
       IN TextPosition(IF getCharacter(d, pos, options) = "" THEN ""
                       ELSE r.character,
                       pos, r.isLeadingSpace, r.isTrailingSpace, r.isBr,
                       r.collapsible)

\* every boundary position of document d
Positions(d) == Evaluate("Positions", <<d>>)

PositionsBody(d) ==
  {p \in [node : Nodes(d), offset : 0 .. MaxLength] :
     p.offset <= getNodeLength(d, p.node)}

\* the positions iterators are created at: those of the body and of the
\* text nodes
IteratorPositions(d) == Evaluate("IteratorPositions", <<d>>)

IteratorPositionsBody(d) ==
  {p \in Positions(d) : p.node = 2 \/ NodeOf(d, p.node).type = TEXT_NODE}

\* the character options the operations of the model are called with
UsedOptions ==
  {defaultCharacterOptions(im) : im \in Impls}
    \cup {createOptions(im, TRUE) : im \in Impls}
    \cup {findOptionsAsCharacterOptions}

\* The characters are a function of the tree, the position and the options
\* (the dev build caches them per position and option key for the life of a
\* session; the tree does not change under the operations modelled).
\* a function together with all of its values
Tabulated(f) == IF f = f THEN f ELSE f

CharacterTable ==
  Tabulated([im \in Impls |->
    [d \in 1 .. NDocs |->
      [pos \in Positions(d) |->
        [options \in UsedOptions |-> materialize(im, d, pos, options)]]]])

CharacterAt(im, d, pos, options) ==
  Evaluate("CharacterAt", <<im, d, pos, options>>)

\* The visible neighbours of every position, likewise a function of the
\* tree (the dev build caches them under "nextVisible" and "previousVisible").
VisibleTable ==
  Tabulated([im \in Impls |->
    [d \in 1 .. NDocs |->
      [pos \in Positions(d) |->
        [next |-> nextVisiblePosition(im, d, pos),
         previous |-> previousVisiblePosition(im, d, pos)]]]])

nextVisible(im, d, pos) == Evaluate("nextVisible", <<im, d, pos>>)

previousVisible(im, d, pos) == Evaluate("previousVisible", <<im, d, pos>>)

CollapsedTable ==
  Tabulated([im \in Impls |->
    [d \in 1 .. NDocs |-> [n \in Nodes(d) |-> isCollapsedNode(im, d, n)]]])

isCollapsed(im, d, n) == Evaluate("isCollapsed", <<im, d, n>>)

(***************************************************************************)
(* Character iterator.  An iterator is a record of the closure variables   *)
(* of createCharacterIterator: pos, finished, endPos, backward,            *)
(* previousTextPos and returnPreviousTextPos.                              *)
(***************************************************************************)
createCharacterIterator(im, d, startPos, backward, endPos) ==
  Evaluate("createCharacterIterator", <<im, d, startPos, backward, endPos>>)

createCharacterIteratorBody(im, d, startPos, backward, endPos) ==
  LET adjusted ==
        IF endPos = NullPos THEN NullPos
        ELSE IF ~isCollapsed(im, d, endPos.node) THEN endPos
        ELSE IF backward
        THEN previousVisible(im, d,
                                     IF im = "old" THEN endPos ELSE startPos)
        ELSE nextVisible(im, d, endPos)
  IN [pos |-> startPos, finished |-> FALSE, endPos |-> adjusted,
      backward |-> backward, previousTextPos |-> NoChar,
      returnPreviousTextPos |-> FALSE]

\* the inner next(): the iterator after the step and the position it
\* delivers (NullPos for null)
innerNext(im, d, it) ==
  IF im = "old"
  THEN IF it.finished THEN [it |-> it, at |-> NullPos]
       ELSE LET p == IF it.backward THEN it.pos
                     ELSE nextVisible(im, d, it.pos)
                fin == p = NullPos \/ (it.endPos # NullPos /\ p = it.endPos)
                np == IF it.backward THEN previousVisible(im, d, p)
                      ELSE p
            IN [it |-> [it EXCEPT !.pos = np, !.finished = fin], at |-> p]
  ELSE IF it.backward
       THEN LET b == it.pos
                f == IF it.finished THEN it.pos
                     ELSE previousVisible(im, d, it.pos)
                g == it.finished \/ f = NullPos
                     \/ (it.endPos # NullPos /\ f = it.endPos)
            IN [it |-> [it EXCEPT !.pos = IF g THEN NullPos ELSE f,
                                  !.finished = g],
                at |-> b]
       ELSE IF it.finished THEN [it |-> [it EXCEPT !.pos = NullPos],
                                 at |-> NullPos]
       ELSE LET f == nextVisible(im, d, it.pos)
                g == f = NullPos \/ (it.endPos # NullPos /\ f = it.endPos)
            IN [it |-> [it EXCEPT !.pos = IF g THEN NullPos ELSE f,
                                  !.finished = g],
                at |-> f]

\* the loop of next() over the inner next(): skips the positions whose
\* character is empty
RECURSIVE nextNonEmpty(_, _, _, _)
nextNonEmpty(im, d, options, it) ==
  LET r == innerNext(im, d, it)
  IN IF r.at = NullPos THEN [it |-> r.it, textPos |-> NoChar]
     ELSE LET c == CharacterAt(im, d, r.at, options)
          IN IF c.character # ""
             THEN [it |-> [r.it EXCEPT !.previousTextPos = c], textPos |-> c]
             ELSE nextNonEmpty(im, d, options, r.it)

\* a next() that takes no notice of a rewind
iteratorNextForgetful(im, d, options, it) == nextNonEmpty(im, d, options, it)

\* iterator.next(): textPos is NoChar when next() returns no character
iteratorNext(im, d, options, it) ==
  Evaluate("iteratorNext", <<im, d, options, it>>)

iteratorNextBody(im, d, options, it) ==
  IF it.returnPreviousTextPos
  THEN [it |-> [it EXCEPT !.returnPreviousTextPos = FALSE],
        textPos |-> it.previousTextPos]
  ELSE nextNonEmpty(im, d, options, it)

\* the iterator of a caller who has created none: next() has nothing to
\* deliver
NoIterator ==
  [pos |-> NullPos, finished |-> TRUE, endPos |-> NullPos,
   backward |-> FALSE, previousTextPos |-> NoChar,
   returnPreviousTextPos |-> FALSE]

\* iterator.rewind(): raised is TRUE when it throws
iteratorRewind(it) ==
  IF it.previousTextPos # NoChar
  THEN [it |-> [it EXCEPT !.returnPreviousTextPos = TRUE], raised |-> FALSE]
  ELSE [it |-> it, raised |-> TRUE]

\* "while ((textPos = it.next())) chars.push(textPos)": every character the
\* iterator delivers; a raised TypeError ends the sequence as its last entry
RECURSIVE drain(_, _, _, _)
drain(im, d, options, it) ==
  LET r == iteratorNext(im, d, options, it)
  IN IF r.textPos = NoChar THEN <<>>
     ELSE IF r.textPos.character = Throw THEN <<r.textPos>>
     ELSE <<r.textPos>> \o drain(im, d, options, r.it)

Raised(chars) == Len(chars) > 0 /\ chars[Len(chars)].character = Throw

Characters(chars) == [i \in 1 .. Len(chars) |-> chars[i].character]


(***************************************************************************)
(* Word tokenizer and tokenized text provider.                             *)
(***************************************************************************)
\* [a-z0-9] under the i flag, over the alphabet of the model
WordChars ==
  {"a", "b", "c", "d", "e", "n", "o", "s", "t", "x", "y", "z", "w",
   "A", "B", "C", "T", "0", "1", "2"}

\* the word regexes of the model: the default /[a-z0-9]+('[a-z0-9]+)*/gi
\* and a caller's / ?[a-z0-9]+/gi, which takes a leading space into the word
DefaultWordRegex == "[a-z0-9]+('[a-z0-9]+)*"

LeadingSpaceWordRegex == " ?[a-z0-9]+"

\* createWordOptions for a caller's wordRegex and includeTrailingSpace, with
\* the default tokenizer
WordOptionsWith(wordRegex, includeTrailingSpace) ==
  [wordRegex |-> wordRegex, includeTrailingSpace |-> includeTrailingSpace]

\* word options with the default wordRegex
WordOptions(includeTrailingSpace) ==
  WordOptionsWith(DefaultWordRegex, includeTrailingSpace)

defaultWordOptions == WordOptions(FALSE)

ch(chars, i) == IF i >= 1 /\ i <= Len(chars) THEN chars[i].character ELSE ""

\* the end (exclusive, 1-based) of the run [a-z0-9]+ that starts at i
RECURSIVE runEnd(_, _)
runEnd(chars, i) ==
  IF ch(chars, i) \in WordChars THEN runEnd(chars, i + 1) ELSE i

\* the end of ('[a-z0-9]+)* from i
RECURSIVE groupsEnd(_, _)
groupsEnd(chars, i) ==
  IF ch(chars, i) = "'" /\ ch(chars, i + 1) \in WordChars
  THEN groupsEnd(chars, runEnd(chars, i + 1)) ELSE i

\* wordRegex.exec from lastIndex i: the start of the next match, 0 if none
RECURSIVE matchStart(_, _)
matchStart(chars, i) ==
  IF i > Len(chars) THEN 0
  ELSE IF ch(chars, i) \in WordChars THEN i ELSE matchStart(chars, i + 1)

RECURSIVE trailingSpaceEnd(_, _)
trailingSpaceEnd(chars, i) ==
  IF ch(chars, i) \in nonLineBreakWhiteSpaceRegex
  THEN trailingSpaceEnd(chars, i + 1) ELSE i

createTokenFromRange(chars, start, end, isWord) ==
  [isWord |-> isWord, chars |-> SubSeq(chars, start, end - 1)]

\* / ?[a-z0-9]+/gi from lastIndex i: the start of the next match, 0 if none
RECURSIVE leadingSpaceMatchStart(_, _)
leadingSpaceMatchStart(chars, i) ==
  IF i > Len(chars) THEN 0
  ELSE IF ch(chars, i) \in WordChars THEN i
  ELSE IF ch(chars, i) = " " /\ ch(chars, i + 1) \in WordChars THEN i
  ELSE leadingSpaceMatchStart(chars, i + 1)

\* wordRegex.exec(word) from lastIndex i: result.index (1-based, 0 for null)
\* and the end of result[0] (exclusive)
exec(wordRegex, chars, i) ==
  IF wordRegex = DefaultWordRegex
  THEN LET index == matchStart(chars, i)
       IN [index |-> index,
           end |-> IF index = 0 THEN 0
                   ELSE groupsEnd(chars, runEnd(chars, index))]
  ELSE LET index == leadingSpaceMatchStart(chars, i)
       IN [index |-> index,
           end |-> IF index = 0 THEN 0
                   ELSE IF ch(chars, index) = " "
                   THEN runEnd(chars, index + 1)
                   ELSE runEnd(chars, index)]

\* the while loop of defaultTokenizer from regex lastIndex i, with
\* lastWordEnd the end of the last word token
RECURSIVE tokenizeFrom(_, _, _, _)
tokenizeFrom(chars, wordOptions, i, lastWordEnd) ==
  LET result == exec(wordOptions.wordRegex, chars, i)
      wordStart == result.index
  IN IF wordStart = 0
     THEN IF lastWordEnd <= Len(chars)
          THEN <<createTokenFromRange(chars, lastWordEnd, Len(chars) + 1,
                                      FALSE)>>
          ELSE <<>>
     ELSE LET matchEnd == result.end
              wordEnd == IF wordOptions.includeTrailingSpace
                         THEN trailingSpaceEnd(chars, matchEnd) ELSE matchEnd
          IN (IF wordStart > lastWordEnd
              THEN <<createTokenFromRange(chars, lastWordEnd, wordStart,
                                          FALSE)>>
              ELSE <<>>)
             \o <<createTokenFromRange(chars, wordStart, wordEnd, TRUE)>>
             \o tokenizeFrom(chars, wordOptions, matchEnd, wordEnd)

defaultTokenizer(chars, wordOptions) ==
  Evaluate("defaultTokenizer", <<chars, wordOptions>>)

defaultTokenizerBody(chars, wordOptions) ==
  tokenizeFrom(chars, wordOptions, 1, 1)

\* arrayIndexOf(tokens, chars[k].token): the (1-based) index of the token
\* that holds the k-th character of the tokenized sequence
RECURSIVE tokenIndexOf(_, _, _)
tokenIndexOf(tokens, k, i) ==
  IF i > Len(tokens) THEN 0
  ELSE IF k <= Len(tokens[i].chars) THEN i
  ELSE tokenIndexOf(tokens, k - Len(tokens[i].chars), i + 1)

Reverse(s) == [i \in 1 .. Len(s) |-> s[Len(s) + 1 - i]]

\* consumeWord: the characters consumed and the iterator afterwards
consumeWord(im, d, options, it, passedWordBoundary, insideWord) ==
  Evaluate("consumeWord",
           <<im, d, options, it, passedWordBoundary, insideWord>>)
consumeWordBody(im, d, options, it, passedWordBoundary, insideWord) ==
  LET r == iteratorNext(im, d, options, it)
      textChar == r.textPos.character
  IN IF r.textPos = NoChar THEN [chars |-> <<>>, it |-> r.it]
     ELSE IF textChar = Throw THEN [chars |-> <<r.textPos>>, it |-> r.it]
     ELSE IF textChar \in allWhiteSpaceRegex
     THEN LET rest == consumeWord(im, d, options, r.it,
                                  passedWordBoundary \/ insideWord, FALSE)
          IN [chars |-> <<r.textPos>> \o rest.chars, it |-> rest.it]
     ELSE IF passedWordBoundary
     THEN [chars |-> <<>>, it |-> iteratorRewind(r.it).it]
     ELSE LET rest == consumeWord(im, d, options, r.it, FALSE, TRUE)
          IN [chars |-> <<r.textPos>> \o rest.chars, it |-> rest.it]

\* a provider is the closure of createTokenizedTextProvider: the two
\* iterators and the two token buffers; raised records an exception
createTokenizedTextProvider(im, d, pos, characterOptions, wordOptions) ==
  Evaluate("createTokenizedTextProvider",
           <<im, d, pos, characterOptions, wordOptions>>)

createTokenizedTextProviderBody(im, d, pos, characterOptions, wordOptions) ==
  LET fw == consumeWord(im, d, characterOptions,
                        createCharacterIterator(im, d, pos, FALSE, NullPos),
                        FALSE, FALSE)
      bw == consumeWord(im, d, characterOptions,
                        createCharacterIterator(im, d, pos, TRUE, NullPos),
                        FALSE, FALSE)
      forwardChars == fw.chars
      backwardChars == Reverse(bw.chars)
      tokens == defaultTokenizer(backwardChars \o forwardChars, wordOptions)
  IN [forwardIterator |-> fw.it, backwardIterator |-> bw.it,
      forwardTokensBuffer |->
        IF Len(forwardChars) > 0
        THEN SubSeq(tokens,
                    tokenIndexOf(tokens, Len(backwardChars) + 1, 1),
                    Len(tokens))
        ELSE <<>>,
      backwardTokensBuffer |->
        IF Len(backwardChars) > 0
        THEN SubSeq(tokens, 1, tokenIndexOf(tokens, Len(backwardChars), 1))
        ELSE <<>>,
      raised |-> Raised(forwardChars) \/ Raised(bw.chars)]

NoToken == [isWord |-> FALSE, chars |-> <<>>]

\* nextEndToken: the provider afterwards and the token returned (NoToken
\* when the buffer is empty)
nextEndToken(im, d, characterOptions, wordOptions, pr) ==
  Evaluate("nextEndToken", <<im, d, characterOptions, wordOptions, pr>>)
nextEndTokenBody(im, d, characterOptions, wordOptions, pr) ==
  LET buffer == pr.forwardTokensBuffer
  IN IF pr.raised THEN [pr |-> pr, token |-> NoToken]
     ELSE IF Len(buffer) = 1 /\ ~buffer[1].isWord
     THEN LET cw == consumeWord(im, d, characterOptions, pr.forwardIterator,
                                FALSE, FALSE)
          IN IF Raised(cw.chars)
             THEN [pr |-> [pr EXCEPT !.raised = TRUE], token |-> NoToken]
             ELSE IF Len(cw.chars) > 0
             THEN nextEndToken(im, d, characterOptions, wordOptions,
                    [pr EXCEPT !.forwardIterator = cw.it,
                               !.forwardTokensBuffer =
                                  defaultTokenizer(buffer[1].chars \o cw.chars,
                                                   wordOptions)])
             ELSE [pr |-> [pr EXCEPT !.forwardIterator = cw.it,
                                     !.forwardTokensBuffer = <<>>],
                   token |-> buffer[1]]
     ELSE IF Len(buffer) = 0 THEN [pr |-> pr, token |-> NoToken]
     ELSE [pr |-> [pr EXCEPT !.forwardTokensBuffer = Tail(buffer)],
           token |-> buffer[1]]

\* previousStartToken; the old module names an undefined variable (options)
\* where it re-tokenizes, which raises a ReferenceError
previousStartToken(im, d, characterOptions, wordOptions, pr) ==
  Evaluate("previousStartToken", <<im, d, characterOptions, wordOptions, pr>>)
previousStartTokenBody(im, d, characterOptions, wordOptions, pr) ==
  LET buffer == pr.backwardTokensBuffer
      n == Len(buffer)
  IN IF pr.raised THEN [pr |-> pr, token |-> NoToken]
     ELSE IF n = 1 /\ ~buffer[1].isWord
     THEN LET cw == consumeWord(im, d, characterOptions, pr.backwardIterator,
                                FALSE, FALSE)
          IN IF Raised(cw.chars)
             THEN [pr |-> [pr EXCEPT !.raised = TRUE], token |-> NoToken]
             ELSE IF Len(cw.chars) > 0
             THEN IF im = "old"
                  THEN [pr |-> [pr EXCEPT !.raised = TRUE], token |-> NoToken]
                  ELSE previousStartToken(im, d, characterOptions, wordOptions,
                         [pr EXCEPT !.backwardIterator = cw.it,
                                    !.backwardTokensBuffer =
                                       defaultTokenizer(
                                         Reverse(cw.chars) \o buffer[1].chars,
                                         wordOptions)])
             ELSE [pr |-> [pr EXCEPT !.backwardIterator = cw.it,
                                     !.backwardTokensBuffer = <<>>],
                   token |-> buffer[1]]
     ELSE IF n = 0 THEN [pr |-> pr, token |-> NoToken]
     ELSE [pr |-> [pr EXCEPT !.backwardTokensBuffer = SubSeq(buffer, 1, n - 1)],
           token |-> buffer[n]]


(***************************************************************************)
(* Ranges.  A range is its two boundary positions; setStart and setEnd     *)
(* keep start <= end the way a DOM Range does.                             *)
(***************************************************************************)
\* the child of ancestor that is node or holds node (dom.getClosestAncestorIn);
\* 0 when ancestor is no proper ancestor of node
RECURSIVE getClosestAncestorIn(_, _, _)
getClosestAncestorIn(d, node, ancestor) ==
  IF node = 0 \/ parentNode(d, node) = 0 THEN 0
  ELSE IF parentNode(d, node) = ancestor THEN node
  ELSE getClosestAncestorIn(d, parentNode(d, node), ancestor)

\* the first index at which two root-to-node paths differ
RECURSIVE firstDifference(_, _, _)
firstDifference(a, b, i) ==
  IF a[i] # b[i] THEN i ELSE firstDifference(a, b, i + 1)

\* dom.comparePoints: -1, 0 or 1
comparePoints(d, a, b) == Evaluate("comparePoints", <<d, a, b>>)

comparePointsBody(d, a, b) ==
  IF a.node = b.node
  THEN IF a.offset = b.offset THEN 0
       ELSE IF a.offset < b.offset THEN -1 ELSE 1
  ELSE IF getClosestAncestorIn(d, b.node, a.node) # 0
  THEN IF a.offset <= getNodeIndex(d, getClosestAncestorIn(d, b.node, a.node))
       THEN -1 ELSE 1
  ELSE IF getClosestAncestorIn(d, a.node, b.node) # 0
  THEN IF getNodeIndex(d, getClosestAncestorIn(d, a.node, b.node)) < b.offset
       THEN -1 ELSE 1
  ELSE LET pa == getAncestorsAndSelf(d, a.node)
           pb == getAncestorsAndSelf(d, b.node)
           i == firstDifference(pa, pb, 1)
       IN IF getNodeIndex(d, pa[i]) < getNodeIndex(d, pb[i]) THEN -1 ELSE 1

Range(start, end) == [start |-> start, end |-> end]

collapsed(r) == r.start = r.end

\* Range.setStart: a start after the end takes the end along
setStart(d, r, p) ==
  IF comparePoints(d, p, r.end) = 1 THEN Range(p, p) ELSE Range(p, r.end)

\* Range.setEnd: an end before the start takes the start along
setEnd(d, r, p) ==
  IF comparePoints(d, p, r.start) = -1 THEN Range(p, p) ELSE Range(r.start, p)

collapse(r, toStart) ==
  IF toStart THEN Range(r.start, r.start) ELSE Range(r.end, r.end)

selectNodeContents(d, n) == Range(Pos(n, 0), Pos(n, getNodeLength(d, n)))

\* Range.comparePoint
comparePoint(d, r, p) ==
  IF comparePoints(d, p, r.start) < 0 THEN -1
  ELSE IF comparePoints(d, p, r.end) > 0 THEN 1 ELSE 0

createRangeCharacterIterator(im, d, r, backward) ==
  createCharacterIterator(im, d, IF backward THEN r.end ELSE r.start,
                          backward, IF backward THEN r.start ELSE r.end)

getRangeCharacters(im, d, r, characterOptions) ==
  drain(im, d, characterOptions,
        createRangeCharacterIterator(im, d, r, FALSE))

\* range.text(characterOptions): the characters joined; a raised TypeError
\* shows as a last entry Throw
text(im, d, r, characterOptions) ==
  Evaluate("text", <<im, d, r, characterOptions>>)

textBody(im, d, r, characterOptions) ==
  IF collapsed(r) THEN <<>>
  ELSE Characters(getRangeCharacters(im, d, r, characterOptions))

TextRaised(t) == Len(t) > 0 /\ t[Len(t)] = Throw

(***************************************************************************)
(* movePositionBy and the boundary movers.                                 *)
(***************************************************************************)
CHARACTER == "character"
WORD == "word"

\* "while ((textPos = charIterator.next()) && unitsMoved < absCount)": the
\* units moved, the last character moved over and the character the last
\* call of next() delivered
RECURSIVE moveOverCharacters(_, _, _, _, _, _, _)
moveOverCharacters(im, d, options, it, absCount, unitsMoved, newTextPos) ==
  LET r == iteratorNext(im, d, options, it)
  IN IF r.textPos = NoChar \/ r.textPos.character = Throw
        \/ unitsMoved >= absCount
     THEN [unitsMoved |-> unitsMoved, newTextPos |-> newTextPos,
           nextTextPos |-> r.textPos]
     ELSE moveOverCharacters(im, d, options, r.it, absCount, unitsMoved + 1,
                             r.textPos)

\* "while ((token = next()) && unitsMoved < absCount)"
RECURSIVE moveOverWords(_, _, _, _, _, _, _, _, _)
moveOverWords(im, d, characterOptions, wordOptions, pr, backward, absCount, unitsMoved, newTextPos) ==
  LET r == IF backward
           THEN previousStartToken(im, d, characterOptions, wordOptions, pr)
           ELSE nextEndToken(im, d, characterOptions, wordOptions, pr)
  IN IF r.pr.raised
     THEN [unitsMoved |-> unitsMoved, newTextPos |-> newTextPos,
           raised |-> TRUE]
     ELSE IF r.token = NoToken \/ unitsMoved >= absCount
     THEN [unitsMoved |-> unitsMoved, newTextPos |-> newTextPos,
           raised |-> FALSE]
     ELSE IF r.token.isWord
     THEN moveOverWords(im, d, characterOptions, wordOptions, r.pr, backward,
                        absCount, unitsMoved + 1,
                        IF backward THEN r.token.chars[1]
                        ELSE r.token.chars[Len(r.token.chars)])
     ELSE moveOverWords(im, d, characterOptions, wordOptions, r.pr, backward,
                        absCount, unitsMoved, newTextPos)

Abs(n) == IF n < 0 THEN -n ELSE n

\* movePositionBy: position is NullPos when the code computes null; raised
\* is TRUE when an exception leaves the function
movePositionBy(im, d, pos, unit, count, characterOptions, wordOptions) ==
  Evaluate("movePositionBy",
           <<im, d, pos, unit, count, characterOptions, wordOptions>>)

movePositionByBody(im, d, pos, unit, count, characterOptions, wordOptions) ==
  IF count = 0
  THEN [position |-> pos, unitsMoved |-> 0, raised |-> FALSE]
  ELSE IF unit \notin {CHARACTER, WORD}
  THEN [position |-> pos, unitsMoved |-> 0, raised |-> TRUE]
  ELSE
    LET backward == count < 0
        m == IF unit = CHARACTER
             THEN LET c == moveOverCharacters(im, d, characterOptions,
                             createCharacterIterator(im, d, pos, backward,
                                                     NullPos),
                             Abs(count), 0, NoChar)
                  IN [unitsMoved |-> c.unitsMoved,
                      newTextPos |-> c.newTextPos,
                      nextTextPos |-> c.nextTextPos,
                      raised |-> c.nextTextPos.character = Throw]
             ELSE LET w == moveOverWords(im, d, characterOptions, wordOptions,
                             createTokenizedTextProvider(im, d, pos,
                               characterOptions, wordOptions),
                             backward, Abs(count), 0, NoChar)
                  IN [unitsMoved |-> w.unitsMoved,
                      newTextPos |-> w.newTextPos,
                      nextTextPos |-> NoChar,
                      raised |-> w.raised]
        newPos == IF m.newTextPos # NoChar THEN m.newTextPos.position ELSE pos
        \* unit word: the first character after the original position
        first == iteratorNext(im, d, characterOptions,
                   createCharacterIterator(im, d, pos, FALSE, NullPos)).textPos
        nextTextPos == IF unit = WORD THEN first ELSE m.nextTextPos
        \* the dev build tests isLeadingSpace of the position it ends at
        \* even when nothing was moved over
        endsOnLeadingSpace ==
          IF m.newTextPos # NoChar THEN m.newTextPos.isLeadingSpace
          ELSE im = "dev" /\ unit = WORD
               /\ resolveLeadingAndTrailingSpaces(d, pos).isLeadingSpace
    IN IF m.raised
       THEN [position |-> pos, unitsMoved |-> 0, raised |-> TRUE]
       ELSE IF backward
       THEN [position |-> previousVisible(im, d, newPos),
             unitsMoved |-> -m.unitsMoved, raised |-> FALSE]
       ELSE IF endsOnLeadingSpace
       THEN IF nextTextPos.character = Throw
            THEN [position |-> pos, unitsMoved |-> 0, raised |-> TRUE]
            ELSE [position |->
                    IF nextTextPos # NoChar
                    THEN previousVisible(im, d, nextTextPos.position)
                    ELSE newPos,
                  unitsMoved |-> m.unitsMoved, raised |-> FALSE]
       ELSE [position |-> newPos, unitsMoved |-> m.unitsMoved,
             raised |-> FALSE]


\* the function createRangeBoundaryMover(isStart, collapse) returns, applied
\* to range r: the range afterwards, the value returned and whether an
\* exception left it (a null new position is dereferenced: TypeError)
createRangeBoundaryMover(im, d, isStart, doCollapse, r, unit, count, characterOptions, wordOptions) ==
  Evaluate("createRangeBoundaryMover",
           <<im, d, isStart, doCollapse,
             r, unit, count, characterOptions, wordOptions>>)

createRangeBoundaryMoverBody(im, d, isStart, doCollapse, r, unit, count, characterOptions, wordOptions) ==
  LET boundaryIsStart == IF doCollapse THEN count >= 0 ELSE isStart
      r1 == IF doCollapse THEN collapse(r, ~boundaryIsStart) ELSE r
      moveResult == movePositionBy(im, d,
                      IF boundaryIsStart THEN r1.start ELSE r1.end,
                      unit, count, characterOptions, wordOptions)
      newPos == moveResult.position
  IN IF moveResult.raised \/ newPos = NullPos
     THEN [range |-> r1, unitsMoved |-> 0, raised |-> TRUE]
     ELSE [range |-> IF boundaryIsStart THEN setStart(d, r1, newPos)
                     ELSE setEnd(d, r1, newPos),
           unitsMoved |-> moveResult.unitsMoved, raised |-> FALSE]

moveStart(im, d, r, unit, count, characterOptions, wordOptions) ==
  createRangeBoundaryMover(im, d, TRUE, FALSE, r, unit, count,
                           characterOptions, wordOptions)

moveEnd(im, d, r, unit, count, characterOptions, wordOptions) ==
  createRangeBoundaryMover(im, d, FALSE, FALSE, r, unit, count,
                           characterOptions, wordOptions)

move(im, d, r, unit, count, characterOptions, wordOptions) ==
  createRangeBoundaryMover(im, d, TRUE, TRUE, r, unit, count,
                           characterOptions, wordOptions)

\* allWhiteSpaceRegex.test(character), over the characters of the pages
allWhiteSpace(character) == character \in {" ", "\n", "\t"}

\* "while ((textPos = it.next()) && allWhiteSpaceRegex.test(...))
\* ++trimCharCount": the count, and whether it.next() raised
trimCharCount(im, d, options, it) ==
  Evaluate("trimCharCount", <<im, d, options, it>>)

trimCharCountBody(im, d, options, it) ==
  LET r == iteratorNext(im, d, options, it)
  IN IF r.textPos = NoChar THEN [count |-> 0, raised |-> FALSE]
     ELSE IF r.textPos.character = Throw THEN [count |-> 0, raised |-> TRUE]
     ELSE IF ~allWhiteSpace(r.textPos.character)
     THEN [count |-> 0, raised |-> FALSE]
     ELSE LET rest == trimCharCount(im, d, options, r.it)
          IN [count |-> rest.count + 1, raised |-> rest.raised]

\* a trimmer that reports the trim without moving the boundary
createRangeTrimmerUnmoved(im, d, isStart, r, characterOptions) ==
  LET it == createRangeCharacterIterator(im, d, r, ~isStart)
      counted == trimCharCount(im, d, characterOptions, it)
  IN [range |-> r, value |-> counted.count > 0, raised |-> counted.raised]

\* range.trimStart(characterOptions) and range.trimEnd(characterOptions):
\* the range afterwards, the value returned and whether the call raised
createRangeTrimmer(im, d, isStart, r, characterOptions) ==
  Evaluate("createRangeTrimmer", <<im, d, isStart, r, characterOptions>>)

createRangeTrimmerBody(im, d, isStart, r, characterOptions) ==
  LET it == createRangeCharacterIterator(im, d, r, ~isStart)
      counted == trimCharCount(im, d, characterOptions, it)
      trimmed == counted.count > 0
      moved == IF isStart
               THEN moveStart(im, d, r, CHARACTER, counted.count,
                              characterOptions, defaultWordOptions)
               ELSE moveEnd(im, d, r, CHARACTER, -counted.count,
                            characterOptions, defaultWordOptions)
  IN IF counted.raised THEN [range |-> r, value |-> FALSE, raised |-> TRUE]
     ELSE IF ~trimmed THEN [range |-> r, value |-> FALSE, raised |-> FALSE]
     ELSE [range |-> moved.range, value |-> ~moved.raised,
           raised |-> moved.raised]

trimStart(im, d, r, characterOptions) ==
  createRangeTrimmer(im, d, TRUE, r, characterOptions)

trimEnd(im, d, r, characterOptions) ==
  createRangeTrimmer(im, d, FALSE, r, characterOptions)

\* range.trim(characterOptions)
trim(im, d, r, characterOptions) ==
  Evaluate("trim", <<im, d, r, characterOptions>>)

trimBody(im, d, r, characterOptions) ==
  LET startTrimmed == trimStart(im, d, r, characterOptions)
      endTrimmed == trimEnd(im, d, startTrimmed.range, characterOptions)
  IN IF startTrimmed.raised THEN startTrimmed
     ELSE [range |-> endTrimmed.range,
           value |-> ~endTrimmed.raised
                     /\ (startTrimmed.value \/ endTrimmed.value),
           raised |-> endTrimmed.raised]

\* range.selectCharacters(containerNode, startIndex, endIndex, options)
selectCharacters(im, d, containerNode, startIndex, endIndex, characterOptions) ==
  Evaluate("selectCharacters",
           <<im, d, containerNode, startIndex, endIndex, characterOptions>>)

selectCharactersBody(im, d, containerNode, startIndex, endIndex, characterOptions) ==
  LET r1 == collapse(selectNodeContents(d, containerNode), TRUE)
      m1 == moveStart(im, d, r1, CHARACTER, startIndex, characterOptions,
                      defaultWordOptions)
      r2 == collapse(m1.range, TRUE)
      m2 == moveEnd(im, d, r2, CHARACTER, endIndex - startIndex,
                    characterOptions, defaultWordOptions)
  IN IF m1.raised THEN [range |-> m1.range, raised |-> TRUE]
     ELSE [range |-> m2.range, raised |-> m2.raised]

\* dom.comparePoints(nodeA, offsetA, nodeB, offsetB) called with a node for
\* offsetA, as toCharacterRange calls it: every comparison of offsetA with
\* a number is false
comparePointsNodeOffset(d, nodeA, b) ==
  IF nodeA = b.node THEN 1
  ELSE IF getClosestAncestorIn(d, b.node, nodeA) # 0 THEN 1
  ELSE comparePoints(d, Pos(nodeA, 0), b)

\* range.toCharacterRange(containerNode, characterOptions)
toCharacterRange(im, d, r, containerNode, characterOptions) ==
  Evaluate("toCharacterRange", <<im, d, r, containerNode, characterOptions>>)

toCharacterRangeBody(im, d, r, containerNode, characterOptions) ==
  LET parent == parentNode(d, containerNode)
      nodeIndex == getNodeIndex(d, containerNode)
      rangeStartsBeforeNode ==
        comparePointsNodeOffset(d, r.start.node, Pos(parent, nodeIndex)) = -1
      rangeBetween ==
        IF im = "dev"
        THEN IF rangeStartsBeforeNode
             THEN Range(r.start, Pos(parent, nodeIndex))
             ELSE Range(Pos(parent, nodeIndex), r.start)
        ELSE IF rangeStartsBeforeNode
        THEN setEnd(d, setStart(d, r, r.start), Pos(parent, nodeIndex))
        ELSE setEnd(d, setStart(d, r, Pos(parent, nodeIndex)), r.start)
      between == text(im, d, rangeBetween, characterOptions)
      own == text(im, d, r, characterOptions)
      startIndex == IF rangeStartsBeforeNode THEN -Len(between)
                    ELSE Len(between)
  IN [start |-> startIndex, end |-> startIndex + Len(own),
      raised |-> TextRaised(between) \/ TextRaised(own)]


(***************************************************************************)
(* expand("word") and whole-word test.                                     *)
(***************************************************************************)
\* range.expand(unit, {characterOptions, wordOptions}) without trimming:
\* the range afterwards, the value returned and whether an exception left
\* it (a missing token or a null position is dereferenced: TypeError)
\* an expand that takes the end to the end of the next word each time
expandByMoveEnd(im, d, r, unit, characterOptions, wordOptions) ==
  LET m == moveEnd(im, d, r, unit, 1, characterOptions, wordOptions)
  IN [range |-> m.range, moved |-> m.unitsMoved # 0, raised |-> m.raised]

expand(im, d, r, unit, characterOptions, wordOptions) ==
  Evaluate("expand", <<im, d, r, unit, characterOptions, wordOptions>>)

expandBody(im, d, r, unit, characterOptions, wordOptions) ==
  IF unit # WORD
  THEN LET m == moveEnd(im, d, r, CHARACTER, 1, characterOptions,
                        wordOptions)
       IN [range |-> m.range, moved |-> m.unitsMoved # 0,
           raised |-> m.raised]
  ELSE
    LET startPos == r.start
        endPos == r.end
        startProvider == createTokenizedTextProvider(im, d, startPos,
                           characterOptions, wordOptions)
        startToken == nextEndToken(im, d, characterOptions, wordOptions,
                                   startProvider)
        endProvider == createTokenizedTextProvider(im, d, endPos,
                         characterOptions, wordOptions)
        endToken == IF collapsed(r) THEN startToken
                    ELSE previousStartToken(im, d, characterOptions,
                                            wordOptions, endProvider)
        newStartPos == previousVisible(im, d,
                                       startToken.token.chars[1].position)
        newEndPos == endToken.token.chars[Len(endToken.token.chars)].position
        r1 == IF newStartPos # startPos THEN setStart(d, r, newStartPos)
              ELSE r
        r2 == IF newEndPos # endPos THEN setEnd(d, r1, newEndPos) ELSE r1
    IN IF startToken.pr.raised \/ startToken.token = NoToken
       THEN [range |-> r, moved |-> FALSE, raised |-> TRUE]
       ELSE IF endToken.pr.raised \/ endToken.token = NoToken
               \/ newStartPos = NullPos
       THEN [range |-> r, moved |-> FALSE, raised |-> TRUE]
       ELSE [range |-> r2,
             moved |-> newStartPos # startPos \/ newEndPos # endPos,
             raised |-> FALSE]

\* isWholeWord: the word options are handed to expand as its expand
\* options, so expand runs with the default character and word options
isWholeWord(im, d, startPos, endPos, wordOptions) ==
  Evaluate("isWholeWord", <<im, d, startPos, endPos, wordOptions>>)

\* an isWholeWord that accepts every match
isWholeWordAlways(im, d, startPos, endPos, wordOptions) ==
  [value |-> TRUE, raised |-> FALSE]

isWholeWordBody(im, d, startPos, endPos, wordOptions) ==
  LET r0 == Range(Pos(1, 0), Pos(1, 0))
      range == setEnd(d, setStart(d, r0, startPos), endPos)
      e == expand(im, d, range, WORD, defaultCharacterOptions(im),
                  defaultWordOptions)
  IN [value |-> ~e.moved, raised |-> e.raised]

(***************************************************************************)
(* Text search.                                                            *)
(***************************************************************************)
\* String.prototype.toLowerCase over the alphabet of the model
toLowerCase(c) ==
  CASE c = "A" -> "a"
    [] c = "B" -> "b"
    [] c = "C" -> "c"
    [] c = "T" -> "t"
    [] OTHER -> c

LowerCased(t) == [i \in 1 .. Len(t) |-> toLowerCase(t[i])]

\* text.indexOf(searchTerm) (0-based); -1 when there is none
RECURSIVE indexOfFrom(_, _, _)
indexOfFrom(t, searchTerm, i) ==
  IF i + Len(searchTerm) > Len(t) THEN -1
  ELSE IF SubSeq(t, i + 1, i + Len(searchTerm)) = searchTerm THEN i
  ELSE indexOfFrom(t, searchTerm, i + 1)

indexOf(t, searchTerm) == indexOfFrom(t, searchTerm, 0)

FindOptions(caseSensitive, wholeWordsOnly, wrap, backward, withinRange) ==
  [caseSensitive |-> caseSensitive, wholeWordsOnly |-> wholeWordsOnly,
   wrap |-> wrap, backward |-> backward, withinRange |-> withinRange]

NoRange == Range(NullPos, NullPos)

NoMatch ==
  [found |-> FALSE, startPos |-> NullPos, endPos |-> NullPos,
   valid |-> FALSE, raised |-> FALSE]

\* handleMatch(startIndex, endIndex) over chars (indices 0-based)
handleMatch(im, d, chars, startIndex, endIndex, findOptions) ==
  Evaluate("handleMatch", <<im, d, chars, startIndex, endIndex, findOptions>>)

handleMatchBody(im, d, chars, startIndex, endIndex, findOptions) ==
  LET startPos == previousVisible(im, d, chars[startIndex + 1].position)
      endPos == chars[endIndex].position
      whole == isWholeWord(im, d, startPos, endPos, defaultWordOptions)
  IN IF startPos = NullPos THEN [NoMatch EXCEPT !.raised = TRUE]
     ELSE [found |-> TRUE, startPos |-> startPos, endPos |-> endPos,
           valid |-> ~findOptions.wholeWordsOnly \/ whole.value,
           raised |-> findOptions.wholeWordsOnly /\ whole.raised]

\* the loop of findTextFromPosition for a string search term
findLoop(im, d, it, chars, t, searchTerm, findOptions) ==
  Evaluate("findLoop", <<im, d, it, chars, t, searchTerm, findOptions>>)
findLoopBody(im, d, it, chars, t, searchTerm, findOptions) ==
  LET r == iteratorNext(im, d, findOptionsAsCharacterOptions, it)
      textPos == r.textPos
      currentChar == IF findOptions.caseSensitive THEN textPos.character
                     ELSE toLowerCase(textPos.character)
      chars1 == IF findOptions.backward THEN <<textPos>> \o chars
                ELSE Append(chars, textPos)
      t1 == IF findOptions.backward THEN <<currentChar>> \o t
            ELSE Append(t, currentChar)
      matchStartIndex == indexOf(t1, searchTerm)
  IN IF textPos = NoChar THEN NoMatch
     ELSE IF textPos.character = Throw THEN [NoMatch EXCEPT !.raised = TRUE]
     ELSE IF matchStartIndex # -1
     THEN handleMatch(im, d, chars1, matchStartIndex,
                      matchStartIndex + Len(searchTerm), findOptions)
     ELSE findLoop(im, d, r.it, chars1, t1, searchTerm, findOptions)

findTextFromPosition(im, d, initialPos, searchTerm, searchScopeRange, findOptions) ==
  Evaluate("findTextFromPosition",
           <<im, d, initialPos, searchTerm, searchScopeRange, findOptions>>)

findTextFromPositionBody(im, d, initialPos, searchTerm, searchScopeRange, findOptions) ==
  findLoop(im, d,
           createCharacterIterator(im, d, initialPos, findOptions.backward,
             IF findOptions.backward THEN searchScopeRange.start
             ELSE searchScopeRange.end),
           <<>>, <<>>, searchTerm, findOptions)

\* the patterns searched for: /b/, /a+/, /ab$/ and /^a$/
Patterns == {"b", "a+", "ab$", "^a$"}

\* the end (exclusive, 0-based) of the run of "a" that starts at index i
RECURSIVE runOfA(_, _)
runOfA(t, i) ==
  IF i < Len(t) /\ t[i + 1] = "a" THEN runOfA(t, i + 1) ELSE i

\* searchTerm.exec(text): index and end (exclusive) of the match, found
\* FALSE for null
regexExec(pattern, t) ==
  LET none == [found |-> FALSE, index |-> 0, end |-> 0]
      at(i, e) == [found |-> TRUE, index |-> i, end |-> e]
  IN CASE pattern = "b" ->
            IF indexOf(t, <<"b">>) = -1 THEN none
            ELSE at(indexOf(t, <<"b">>), indexOf(t, <<"b">>) + 1)
       [] pattern = "a+" ->
            IF indexOf(t, <<"a">>) = -1 THEN none
            ELSE at(indexOf(t, <<"a">>), runOfA(t, indexOf(t, <<"a">>)))
       [] pattern = "ab$" ->
            IF Len(t) >= 2 /\ SubSeq(t, Len(t) - 1, Len(t)) = <<"a", "b">>
            THEN at(Len(t) - 2, Len(t)) ELSE none
       [] pattern = "^a$" -> IF t = <<"a">> THEN at(0, 1) ELSE none

\* matchStartIndex and matchEndIndex before they are assigned
Unassigned == [assigned |-> FALSE, start |-> 0, end |-> 0]

\* the loop of findTextFromPosition for a pattern, and the statement after
\* it; handleMatch with unassigned indices reads chars[undefined].position
\* and raises a TypeError
findLoopRegex(im, d, it, chars, t, searchTerm, findOptions, insideRegexMatch, indices) ==
  Evaluate("findLoopRegex",
           <<im, d, it, chars, t, searchTerm, findOptions,
             insideRegexMatch, indices>>)

findLoopRegexBody(im, d, it, chars, t, searchTerm, findOptions, insideRegexMatch, indices) ==
  LET r == iteratorNext(im, d, findOptionsAsCharacterOptions, it)
      textPos == r.textPos
      chars1 == IF findOptions.backward THEN <<textPos>> \o chars
                ELSE Append(chars, textPos)
      t1 == IF findOptions.backward THEN <<textPos.character>> \o t
            ELSE Append(t, textPos.character)
      result == regexExec(searchTerm, t1)
      indices1 == IF result.found /\ insideRegexMatch
                  THEN [assigned |-> TRUE, start |-> result.index,
                        end |-> result.end]
                  ELSE indices
      afterLoop(cs, ix) ==
        IF ~ix.assigned THEN [NoMatch EXCEPT !.raised = TRUE]
        ELSE handleMatch(im, d, cs, ix.start, ix.end, findOptions)
  IN IF textPos = NoChar
     THEN IF insideRegexMatch THEN afterLoop(chars, indices) ELSE NoMatch
     ELSE IF textPos.character = Throw THEN [NoMatch EXCEPT !.raised = TRUE]
     ELSE IF result.found /\ insideRegexMatch
             /\ \/ (~findOptions.backward /\ result.end < Len(t1))
                \/ (findOptions.backward /\ result.index > 0)
     THEN afterLoop(chars1, indices1)
     ELSE findLoopRegex(im, d, r.it, chars1, t1, searchTerm, findOptions,
                        insideRegexMatch \/ result.found, indices1)

\* findTextFromPosition(initialPos, searchTerm, true, searchScopeRange,
\* findOptions): the search for a pattern
findTextFromPositionRegex(im, d, initialPos, searchTerm, searchScopeRange, findOptions) ==
  findLoopRegex(im, d,
                createCharacterIterator(im, d, initialPos,
                  findOptions.backward,
                  IF findOptions.backward THEN searchScopeRange.start
                  ELSE searchScopeRange.end),
                <<>>, <<>>, searchTerm, findOptions, FALSE, Unassigned)

\* the number of searches one findText call can make: every invalid match
\* moves the position past at least one character, and it wraps once
MaxSearches == 16


\* the wrap of findText narrowing the scope range object itself
wrapScopeInPlace(d, searchScopeRange, initialPos, backward) ==
  LET narrowed == IF backward THEN setStart(d, searchScopeRange, initialPos)
                  ELSE setEnd(d, searchScopeRange, initialPos)
  IN [pos |-> IF backward THEN searchScopeRange.end
              ELSE searchScopeRange.start,
      searchScopeRange |-> narrowed,
      given |-> narrowed]

\* the wrap of findText: "searchScopeRange = searchScopeRange.cloneRange()"
\* and the narrowing of the clone to the part not yet searched; pos is where
\* the search resumes, given is the range object the scope was before
wrapScope(d, searchScopeRange, initialPos, backward) ==
  LET clone == searchScopeRange
  IN [pos |-> IF backward THEN clone.end ELSE clone.start,
      searchScopeRange |-> IF backward THEN setStart(d, clone, initialPos)
                           ELSE setEnd(d, clone, initialPos),
      given |-> searchScopeRange]

\* "while (true)" of findText: the range afterwards, the value returned and
\* whether an exception left it; diverged is TRUE when the loop is still
\* running after MaxSearches searches
RECURSIVE findTextLoop(_, _, _, _, _, _, _, _, _, _)
findTextLoop(im, d, r, searchTerm, findOptions, initialPos, pos, searchScopeRange, wrappedAround, searches) ==
  LET findResult == findTextFromPosition(im, d, pos, searchTerm,
                                         searchScopeRange, findOptions)
      found == IF im = "dev"
               THEN Range(findResult.startPos, findResult.endPos)
               ELSE setEnd(d, setStart(d, r, findResult.startPos),
                           findResult.endPos)
  IN IF searches >= MaxSearches
     THEN [range |-> r, value |-> FALSE, raised |-> FALSE, diverged |-> TRUE,
           wrappedAround |-> wrappedAround,
           scope |-> searchScopeRange]
     ELSE IF findResult.raised
     THEN [range |-> r, value |-> FALSE, raised |-> TRUE, diverged |-> FALSE,
           wrappedAround |-> wrappedAround,
           scope |-> searchScopeRange]
     ELSE IF findResult.found
     THEN IF findResult.valid
          THEN [range |-> found, value |-> TRUE, raised |-> FALSE,
                diverged |-> FALSE, wrappedAround |-> wrappedAround,
           scope |-> searchScopeRange]
          ELSE findTextLoop(im, d, r, searchTerm, findOptions, initialPos,
                 IF findOptions.backward THEN findResult.startPos
                 ELSE findResult.endPos,
                 searchScopeRange, wrappedAround, searches + 1)
     ELSE IF findOptions.wrap /\ ~wrappedAround
     THEN LET w == wrapScope(d, searchScopeRange, initialPos,
                             findOptions.backward)
              rest == findTextLoop(im, d, r, searchTerm, findOptions,
                        initialPos, w.pos, w.searchScopeRange, TRUE,
                        searches + 1)
          IN [rest EXCEPT !.scope = w.given]
     ELSE [range |-> r, value |-> FALSE, raised |-> FALSE,
           diverged |-> FALSE, wrappedAround |-> wrappedAround,
           scope |-> searchScopeRange]

\* range.findText(searchTerm, findOptions) for a string search term;
\* withinRange = NoRange stands for no withinRange option
findText(im, d, r, searchTermParam, findOptions) ==
  Evaluate("findText", <<im, d, r, searchTermParam, findOptions>>)

findTextBody(im, d, r, searchTermParam, findOptions) ==
  LET searchScopeRange == IF findOptions.withinRange = NoRange
                          THEN selectNodeContents(d, 1)
                          ELSE findOptions.withinRange
      searchTerm == IF findOptions.caseSensitive THEN searchTermParam
                    ELSE LowerCased(searchTermParam)
      seed == IF findOptions.backward THEN r.end ELSE r.start
      comparison == comparePoint(d, searchScopeRange, seed)
      initialPos == IF comparison = -1 THEN searchScopeRange.start
                    ELSE IF comparison = 1 THEN searchScopeRange.end
                    ELSE seed
  IN findTextLoop(im, d, r, searchTerm, findOptions, initialPos, initialPos,
                  searchScopeRange, FALSE, 0)

(***************************************************************************)
(* Evaluate(fn, a) is the value of the function named fn applied to the    *)
(* arguments a.                                                            *)
(***************************************************************************)
Evaluate(fn, a) ==
  CASE fn = "NodeOf" -> Docs[a[1]][a[2]]
    [] fn = "CharacterAt" -> CharacterTable[a[1]][a[2]][a[3]][a[4]]
    [] fn = "nextVisible" ->
         IF a[3] = NullPos THEN NullPos
         ELSE VisibleTable[a[1]][a[2]][a[3]].next
    [] fn = "previousVisible" ->
         IF a[3] = NullPos THEN NullPos
         ELSE VisibleTable[a[1]][a[2]][a[3]].previous
    [] fn = "isCollapsed" -> CollapsedTable[a[1]][a[2]][a[3]]
    [] fn = "selectCharacters" ->
         selectCharactersBody(a[1], a[2], a[3], a[4], a[5], a[6])
    [] fn = "toCharacterRange" ->
         toCharacterRangeBody(a[1], a[2], a[3], a[4], a[5])
    [] fn = "text" ->
         textBody(a[1], a[2], a[3], a[4])
    [] fn = "findText" ->
         findTextBody(a[1], a[2], a[3], a[4], a[5])
    [] fn = "consumeWord" ->
         consumeWordBody(a[1], a[2], a[3], a[4], a[5], a[6])
    [] fn = "movePositionBy" ->
         movePositionByBody(a[1], a[2], a[3], a[4], a[5], a[6], a[7])
    [] fn = "findTextFromPosition" ->
         findTextFromPositionBody(a[1], a[2], a[3], a[4], a[5], a[6])
    [] fn = "prepopulateChar" ->
         prepopulateCharBody(a[1], a[2])
    [] fn = "createTokenizedTextProvider" ->
         createTokenizedTextProviderBody(a[1], a[2], a[3], a[4], a[5])
    [] fn = "getTrailingSpace" ->
         getTrailingSpaceBody(a[1], a[2], a[3])
    [] fn = "getPossibleCharacterAt" ->
         getPossibleCharacterAtBody(a[1], a[2])
    [] fn = "iteratorNext" ->
         iteratorNextBody(a[1], a[2], a[3], a[4])
    [] fn = "defaultTokenizer" ->
         defaultTokenizerBody(a[1], a[2])
    [] fn = "getCharacter" ->
         getCharacterBody(a[1], a[2], a[3])
    [] fn = "getPrecedingUncollapsedPosition" ->
         getPrecedingUncollapsedPositionBody(a[1], a[2], a[3])
    [] fn = "getCharacterAt" ->
         getCharacterAtBody(a[1], a[2], a[3])
    [] fn = "nextUncollapsed" ->
         nextUncollapsedBody(a[1], a[2])
    [] fn = "resolveLeadingAndTrailingSpaces" ->
         resolveLeadingAndTrailingSpacesBody(a[1], a[2])
    [] fn = "precedingChar" ->
         precedingCharBody(a[1], a[2], a[3])
    [] fn = "findLoop" ->
         findLoopBody(a[1], a[2], a[3], a[4], a[5], a[6], a[7])
    [] fn = "handleMatch" ->
         handleMatchBody(a[1], a[2], a[3], a[4], a[5], a[6])
    [] fn = "getNextPossibleCharacter" ->
         getNextPossibleCharacterBody(a[1], a[2])
    [] fn = "isWholeWord" ->
         isWholeWordBody(a[1], a[2], a[3], a[4], a[5])
    [] fn = "getLeadingSpace" ->
         getLeadingSpaceBody(a[1], a[2], a[3])
    [] fn = "hasInnerTextDev" ->
         hasInnerTextDevBody(a[1], a[2], a[3], a[4])
    [] fn = "expand" ->
         expandBody(a[1], a[2], a[3], a[4], a[5], a[6])
    [] fn = "previousVisiblePosition" ->
         previousVisiblePositionBody(a[1], a[2], a[3])
    [] fn = "nextVisiblePosition" ->
         nextVisiblePositionBody(a[1], a[2], a[3])
    [] fn = "hasInnerTextOld" ->
         hasInnerTextOldBody(a[1], a[2])
    [] fn = "isCollapsedNode" ->
         isCollapsedNodeBody(a[1], a[2], a[3])
    [] fn = "isCollapsedWhitespaceNode" ->
         isCollapsedWhitespaceNodeBody(a[1], a[2], a[3])
    [] fn = "createCharacterIterator" ->
         createCharacterIteratorBody(a[1], a[2], a[3], a[4], a[5])
    [] fn = "comparePoints" ->
         comparePointsBody(a[1], a[2], a[3])
    [] fn = "IteratorPositions" ->
         IteratorPositionsBody(a[1])
    [] fn = "createRangeBoundaryMover" ->
         createRangeBoundaryMoverBody(a[1], a[2], a[3], a[4], a[5], a[6], a[7], a[8], a[9])
    [] fn = "classify" ->
         classifyBody(a[1], a[2], a[3])
    [] fn = "Positions" ->
         PositionsBody(a[1])
    [] fn = "nextEndToken" ->
         nextEndTokenBody(a[1], a[2], a[3], a[4], a[5])
    [] fn = "previousStartToken" ->
         previousStartTokenBody(a[1], a[2], a[3], a[4], a[5])
    [] fn = "findLoopRegex" ->
         findLoopRegexBody(a[1], a[2], a[3], a[4], a[5], a[6], a[7], a[8],
                           a[9])
    [] fn = "trimCharCount" ->
         trimCharCountBody(a[1], a[2], a[3], a[4])
    [] fn = "createRangeTrimmer" ->
         createRangeTrimmerBody(a[1], a[2], a[3], a[4], a[5])
    [] fn = "trim" ->
         trimBody(a[1], a[2], a[3], a[4])

(***************************************************************************)
(* State machine.  impl and doc are fixed by Init; rs and re are the       *)
(* boundaries of the range the operations act on; lb is TRUE while the dev *)
(* build holds a session.  last and prev are history: last records the     *)
(* most recent operation, prev the operation before it.  A query that      *)
(* follows a query keeps prev; selectCharacters and findText, which set    *)
(* both boundaries anew, forget prev.                                      *)
(***************************************************************************)
\* the pages whose body is not a block, kept for the classification
\* functions
InlineBodyDocs == {10}

\* the pre-line page, kept for the classification and character functions
PreLineDocs == {9}

\* the pages with text nodes of white space only, kept for the
\* classification and character functions
WhitespaceNodeDocs == {11, 12}

\* the pages the range operations run on
DocIds ==
  (1 .. NDocs) \ (InlineBodyDocs \cup PreLineDocs \cup WhitespaceNodeDocs)

\* the elements a caller can name as a container
Containers(d) == {n \in Nodes(d) : NodeOf(d, n).type = ELEMENT_NODE}

NoArgs == [node |-> 0, i |-> 0, j |-> 0, flip |-> FALSE]

NoOut == [start |-> 0, end |-> 0]

OpRecord(op, args, out, raised, before, after) ==
  [op |-> op, args |-> args, out |-> out, raised |-> raised,
   before |-> before, after |-> after]

NoOp ==
  OpRecord("none", NoArgs, NoOut, FALSE, Range(NullPos, NullPos),
           Range(NullPos, NullPos))

\* createEntryPointFunction (dev): the session is ended when the function
\* returns and no session was live at entry; a raised exception skips that.
\* The old module has no session.
sessionAfter(im, live, raised) ==
  IF im = "old" THEN FALSE ELSE live \/ raised

Current == Range(rs, re)

IsQuery(rec) == rec.op \in {"toCharacterRange", "text"}

\* the history after a query
Queried(rec) ==
  /\ last' = rec
  /\ prev' = IF IsQuery(last) THEN prev ELSE last

\* the history after an operation that sets the range
Changed(rec) ==
  /\ last' = rec
  /\ prev' = last

\* a fresh range of the document: both boundaries at (document, 0)
\* the entry-point and noMutation calls that are executing, innermost last,
\* and the identity of the session object created last
NoCalls == [frames |-> <<>>, created |-> 0]

InitCommon ==
  /\ impl \in Impls
  /\ doc \in DocIds
  /\ rs = Pos(1, 0)
  /\ re = Pos(1, 0)
  /\ lb = FALSE
  /\ last = NoOp
  /\ prev = NoOp
  /\ iterator = [closure |-> NoIterator, startPos |-> NullPos,
                 endPos |-> NullPos]
  /\ calls = NoCalls

\* range.selectCharacters(containerNode, i, j, characterOptions)
SelectCharacters(n, i, j, flip) ==
  \E r \in {selectCharacters(impl, doc, n, i, j,
                              createOptions(impl, flip))} :
     /\ rs' = r.range.start
     /\ re' = r.range.end
     /\ lb' = sessionAfter(impl, lb, r.raised)
     /\ prev' = NoOp
     /\ last' = OpRecord("selectCharacters",
                         [node |-> n, i |-> i, j |-> j, flip |-> flip],
                         NoOut, r.raised, Range(NullPos, NullPos), r.range)
     /\ UNCHANGED <<calls, impl, doc, iterator>>

\* range.toCharacterRange(containerNode, characterOptions)
ToCharacterRange(n, flip) ==
  \E r \in {toCharacterRange(impl, doc, Current, n,
                              createOptions(impl, flip))} :
     /\ lb' = sessionAfter(impl, lb, r.raised)
     /\ Queried(OpRecord("toCharacterRange",
                         [node |-> n, i |-> 0, j |-> 0, flip |-> flip],
                         [start |-> r.start, end |-> r.end], r.raised,
                         Current, Current))
     /\ UNCHANGED <<calls, impl, doc, rs, re, iterator>>

\* range.text(characterOptions)
Text(flip) ==
  \E t \in {text(impl, doc, Current, createOptions(impl, flip))} :
     /\ lb' = sessionAfter(impl, lb, TextRaised(t))
     /\ Queried(OpRecord("text",
                         [node |-> 0, i |-> 0, j |-> 0, flip |-> flip],
                         [text |-> t], TextRaised(t), Current, Current))
     /\ UNCHANGED <<calls, impl, doc, rs, re, iterator>>

\* range.findText(term, findOptions)
FindText(term, findOptions) ==
  \E r \in {findText(impl, doc, Current, term, findOptions)} :
     /\ rs' = r.range.start
     /\ re' = r.range.end
     /\ lb' = sessionAfter(impl, lb, r.raised)
     /\ prev' = NoOp
     /\ last' = OpRecord("findText",
                         [term |-> term, findOptions |-> findOptions],
                         [value |-> r.value, diverged |-> r.diverged,
                          wrappedAround |-> r.wrappedAround,
                          scope |-> r.scope],
                         r.raised, Current, r.range)
     /\ UNCHANGED <<calls, impl, doc, iterator>>

MaxIndex == 3

NextOffsets ==
  \/ \E n \in Containers(doc), i \in 0 .. MaxIndex, j \in 0 .. MaxIndex,
        flip \in BOOLEAN :
       i <= j /\ SelectCharacters(n, i, j, flip)
  \/ \E n \in Containers(doc), flip \in BOOLEAN : ToCharacterRange(n, flip)

SpecOffsets == InitCommon /\ [][NextOffsets]_vars

\* the visible text of a container, T
containerText(im, d, n, characterOptions) ==
  text(im, d, selectNodeContents(d, n), characterOptions)

\* the last two operations are selectCharacters(container, i, j) and
\* toCharacterRange(container) with the same character options and
\* 0 <= i <= j <= |T|
RoundTripCase ==
  /\ last.op = "toCharacterRange"
  /\ prev.op = "selectCharacters"
  /\ last.args.node = prev.args.node
  /\ last.args.flip = prev.args.flip
  /\ prev.args.j <= Len(containerText(impl, doc, prev.args.node,
                                      createOptions(impl, prev.args.flip)))

\* C1: selectCharacters(container, i, j) followed by
\* toCharacterRange(container) returns {start: i, end: j} whenever
\* 0 <= i <= j <= |T|, T the visible text of the container.
C1_RoundTrip ==
  RoundTripCase =>
    /\ ~prev.raised
    /\ ~last.raised
    /\ last.out.start = prev.args.i
    /\ last.out.end = prev.args.j


(***************************************************************************)
(* Searching for a literal term.                                           *)
(***************************************************************************)
\* the search terms tried
Terms ==
  {<<"a">>, <<"a", "b">>, <<"c", "a", "b">>, <<"C", "a", "b">>,
   <<"b", " ", "a">>, <<"1", " ">>, <<"1", "\n">>}

\* the trees searched: 1 <br>2, cab ab, A Cab
FindDocs == {2, 7, 8}

InitFind == InitCommon /\ doc \in FindDocs

NextFind ==
  \/ \E i \in 0 .. MaxIndex, j \in 0 .. MaxIndex :
       i <= j /\ SelectCharacters(2, i, j, FALSE)
  \/ \E term \in Terms, caseSensitive \in BOOLEAN,
        wholeWordsOnly \in BOOLEAN, backward \in BOOLEAN :
       FindText(term, FindOptions(caseSensitive, wholeWordsOnly, FALSE,
                                  backward, NoRange))

SpecFind == InitFind /\ [][NextFind]_vars

\* the last operation is a findText that returned true
FoundCase == last.op = "findText" /\ ~last.raised /\ last.out.value

\* C2: when findText with a literal term returns true, text() of the
\* resulting range, lower-cased when caseSensitive is false, equals the
\* (lower-cased) term.
C2_FoundTextIsTerm ==
  FoundCase =>
    LET t == text(impl, doc, Current, defaultCharacterOptions(impl))
    IN IF last.args.findOptions.caseSensitive THEN t = last.args.term
       ELSE LowerCased(t) = LowerCased(last.args.term)

\* the last operation is a findText with wholeWordsOnly that returned true
WholeWordFoundCase == FoundCase /\ last.args.findOptions.wholeWordsOnly

\* C3: when findText with wholeWordsOnly returns true, expand("word")
\* leaves the resulting range unchanged; an occurrence inside a longer word
\* is skipped: searching "ab" forward from the start of "cab ab" selects
\* the second occurrence, characters 4 to 6 of the text node.
C3_WholeWordsOnly ==
  WholeWordFoundCase =>
    LET e == expand(impl, doc, Current, WORD, defaultCharacterOptions(impl),
                    defaultWordOptions)
    IN /\ ~e.raised
       /\ ~e.moved
       /\ e.range = Current
       /\ (doc = 7 /\ last.args.term = <<"a", "b">>
             /\ ~last.args.findOptions.backward
             /\ last.before = Range(Pos(1, 0), Pos(1, 0)))
            => Current = Range(Pos(3, 4), Pos(3, 6))

\* "ab" was searched forward from the start of "cab ab" with wholeWordsOnly
\* and found
C3_Witness ==
  /\ WholeWordFoundCase
  /\ doc = 7
  /\ last.args.term = <<"a", "b">>
  /\ ~last.args.findOptions.backward
  /\ last.before = Range(Pos(1, 0), Pos(1, 0))

(***************************************************************************)
(* Wrapped searches over the one-text-node documents "cab ab" and "A Cab", *)
(* with and without a withinRange scope.                                   *)
(***************************************************************************)
WrapDocs == {7, 8}

WrapTerms == {<<"a">>, <<"a", "b">>, <<"c", "a", "b">>, <<"b", " ", "a">>}

\* the scopes: the whole document, characters 0..3 and characters 2..5 of
\* the text node
WithinRanges ==
  {NoRange, Range(Pos(3, 0), Pos(3, 3)), Range(Pos(3, 2), Pos(3, 5))}

InitWrap == InitCommon /\ doc \in WrapDocs

NextWrap ==
  \/ \E i \in 0 .. MaxLength, j \in 0 .. MaxLength :
       i <= j /\ SelectCharacters(2, i, j, FALSE)
  \/ \E term \in WrapTerms, caseSensitive \in BOOLEAN, backward \in BOOLEAN,
        withinRange \in WithinRanges :
       FindText(term, FindOptions(caseSensitive, FALSE, TRUE, backward,
                                  withinRange))

SpecWrap == InitWrap /\ [][NextWrap]_vars

\* the text of the document's text node and the term of the last findText,
\* both as findText compares them
SearchedData ==
  IF last.args.findOptions.caseSensitive THEN Docs[doc][3].data
  ELSE LowerCased(Docs[doc][3].data)

SearchedTerm ==
  IF last.args.findOptions.caseSensitive THEN last.args.term
  ELSE LowerCased(last.args.term)

\* the character offsets of the scope of the last findText
ScopeOffsets ==
  IF last.args.findOptions.withinRange = NoRange
  THEN [start |-> 0, end |-> Len(SearchedData)]
  ELSE [start |-> last.args.findOptions.withinRange.start.offset,
        end |-> last.args.findOptions.withinRange.end.offset]

\* the offsets at which the term occurs inside the scope
Occurrences ==
  {k \in ScopeOffsets.start .. ScopeOffsets.end - Len(SearchedTerm) :
     SubSeq(SearchedData, k + 1, k + Len(SearchedTerm)) = SearchedTerm}

\* the last operation is a wrapping findText whose term occurs once in the
\* scope, started after the occurrence (forward) or before it (backward)
WrapCase ==
  /\ last.op = "findText"
  /\ last.args.findOptions.wrap
  /\ Cardinality(Occurrences) = 1
  /\ \E k \in Occurrences :
       IF last.args.findOptions.backward
       THEN last.before.end.node = 3 /\ last.before.end.offset <= k
       ELSE /\ last.before.start.node = 3
            /\ last.before.start.offset >= k + Len(SearchedTerm)

\* findText returned true and the range is the occurrence in the scope
OccurrenceSelected ==
  /\ ~last.raised
  /\ last.out.value
  /\ \E k \in Occurrences :
       Current = Range(Pos(3, k), Pos(3, k + Len(SearchedTerm)))

\* C4: a wrapping findText that starts after the only occurrence of the
\* term in the scope (forward), or before it (backward), returns true and
\* selects that occurrence.
C4_WrapFindsOnlyOccurrence == WrapCase => OccurrenceSelected

\* the same with the whole document as the scope
C4_WrapWholeDocument ==
  (WrapCase /\ last.args.findOptions.withinRange = NoRange)
    => OccurrenceSelected

(***************************************************************************)
(* The session of the dev build: lb is the module's session variable as it *)
(* stands between two calls of the public operations.                      *)
(***************************************************************************)
\* rangy.createWordIterator(startNode, startOffset, iteratorOptions): the
\* dev build opens the session (ob) and returns the iterator object
CreateWordIterator(n, offset, backward) ==
  /\ lb' = (impl = "dev")
  /\ Queried(OpRecord("createWordIterator",
                      [node |-> n, offset |-> offset, backward |-> backward],
                      NoOut, FALSE, Current, Current))
  /\ UNCHANGED <<calls, impl, doc, rs, re, iterator>>

\* rangy.noMutation(func) of the dev build: ob(), func(session), pb();
\* funcRaises tells whether func throws
NoMutation(funcRaises) ==
  /\ impl = "dev"
  /\ lb' = funcRaises
  /\ Queried(OpRecord("noMutation", [funcRaises |-> funcRaises], NoOut,
                      funcRaises, Current, Current))
  /\ UNCHANGED <<calls, impl, doc, rs, re, iterator>>

NextSession ==
  \/ \E i \in 0 .. MaxIndex, j \in 0 .. MaxIndex :
       i <= j /\ SelectCharacters(2, i, j, FALSE)
  \/ \E flip \in BOOLEAN : Text(flip)
  \/ \E n \in Containers(doc), backward \in BOOLEAN :
       CreateWordIterator(n, 0, backward)
  \/ \E funcRaises \in BOOLEAN : NoMutation(funcRaises)

SpecSession == InitCommon /\ [][NextSession]_vars

\* C5: whenever no public text-range operation is executing, no session is
\* live: every outermost call, on every exit path, leaves the session torn
\* down.
C5_NoSessionBetweenCalls == ~lb

\* a call other than createWordIterator that starts with no session and
\* returns normally leaves no session
C5_NormalReturnTearsDown ==
  [][(~lb /\ last'.op # "createWordIterator" /\ ~last'.raised) => ~lb']_vars

(***************************************************************************)
(* The default tokenizer applied to character sequences.                   *)
(***************************************************************************)
MaxChars == 4

TokenizerAlphabet == {"a", " ", "'", "\n"}

\* the sequences over S with at most n elements
RECURSIVE SeqsUpTo(_, _)
SeqsUpTo(S, n) ==
  IF n = 0 THEN {<<>>}
  ELSE SeqsUpTo(S, n - 1)
         \cup {Append(t, c) : t \in {u \in SeqsUpTo(S, n - 1) : Len(u) = n - 1},
                             c \in S}

\* the characters of t as the text positions the tokenizer is given: the
\* k-th one lies at offset k of a text node
RECURSIVE CharsOf(_)
CharsOf(t) ==
  IF t = <<>> THEN <<>>
  ELSE Append(CharsOf(SubSeq(t, 1, Len(t) - 1)),
              TextPosition(t[Len(t)], Pos(3, Len(t)), FALSE, FALSE, FALSE,
                           FALSE))

\* wordOptions.tokenizer(chars, wordOptions) with the default tokenizer
Tokenize(t, wordOptions) ==
  \E tokens \in {defaultTokenizer(CharsOf(t), wordOptions)} :
     /\ last' = OpRecord("defaultTokenizer",
                         [chars |-> CharsOf(t), wordOptions |-> wordOptions],
                         [tokens |-> tokens], FALSE, Current, Current)
     /\ UNCHANGED <<calls, impl, doc, rs, re, lb, prev, iterator>>

InitTokenizer == InitCommon /\ doc = 1

NextTokenizer ==
  \E t \in SeqsUpTo(TokenizerAlphabet, MaxChars),
     wordRegex \in {DefaultWordRegex, LeadingSpaceWordRegex},
     includeTrailingSpace \in BOOLEAN :
    Tokenize(t, WordOptionsWith(wordRegex, includeTrailingSpace))

SpecTokenizer == InitTokenizer /\ [][NextTokenizer]_vars

\* the characters of the tokens, in order
RECURSIVE TokenChars(_)
TokenChars(tokens) ==
  IF tokens = <<>> THEN <<>>
  ELSE Head(tokens).chars \o TokenChars(Tail(tokens))

\* the tokens of the last call are non-empty and their characters, in
\* order, are the input: every input character is in exactly one token
IsPartition ==
  /\ TokenChars(last.out.tokens) = last.args.chars
  /\ \A k \in 1 .. Len(last.out.tokens) : last.out.tokens[k].chars # <<>>

\* C11: the default tokenizer partitions its input for every character
\* sequence and every word options value: the characters of the returned
\* tokens, in order, are the input sequence, and no token is empty.
C11_TokenizerPartitions == last.op = "defaultTokenizer" => IsPartition

\* the same for the default word regex
C11_DefaultRegexPartitions ==
  (last.op = "defaultTokenizer"
     /\ last.args.wordOptions.wordRegex = DefaultWordRegex) => IsPartition

(***************************************************************************)
(* Visible-position stepping applied to the positions of the documents.    *)
(***************************************************************************)
\* next = nextVisiblePosition(p) and back = previousVisiblePosition(next)
StepThereAndBack(p) ==
  \E next \in {nextVisible(impl, doc, p)} :
    /\ last' = OpRecord("nextVisiblePosition", [pos |-> p],
                        [next |-> next,
                         back |-> previousVisible(impl, doc, next)],
                        FALSE, Current, Current)
    /\ UNCHANGED <<calls, impl, doc, rs, re, lb, prev, iterator>>

NextStepping == \E p \in Positions(doc) : StepThereAndBack(p)

SpecStepping == InitCommon /\ [][NextStepping]_vars

\* a position is visible when its node can hold positions and neither the
\* node nor one of its ancestors is a collapsed node
IsVisiblePosition(im, d, p) ==
  /\ containsPositions(d, p.node)
  /\ \A k \in 1 .. Len(getAncestorsAndSelf(d, p.node)) :
       ~isCollapsed(im, d, getAncestorsAndSelf(d, p.node)[k])

\* the visible positions at or before p in document order
VisibleAtOrBefore(im, d, p) ==
  {q \in Positions(d) :
     IsVisiblePosition(im, d, q) /\ comparePoints(d, q, p) # 1}

\* q is the nearest visible position at or before p
IsNearestVisibleAtOrBefore(im, d, q, p) ==
  /\ q \in VisibleAtOrBefore(im, d, p)
  /\ \A o \in VisibleAtOrBefore(im, d, p) : comparePoints(d, o, q) # 1

\* C12: for every position p with nextVisiblePosition(p) not null,
\* previousVisiblePosition(nextVisiblePosition(p)) is p or the nearest
\* visible position at or before p.
C12_SteppingSymmetric ==
  (last.op = "nextVisiblePosition" /\ last.out.next # NullPos) =>
    \/ last.out.back = last.args.pos
    \/ IsNearestVisibleAtOrBefore(impl, doc, last.out.back, last.args.pos)

\* for a visible position p, stepping forward and back returns to p
C12_VisibleSteppingSymmetric ==
  (last.op = "nextVisiblePosition" /\ last.out.next # NullPos
     /\ IsVisiblePosition(impl, doc, last.args.pos)) =>
    last.out.back = last.args.pos

(***************************************************************************)
(* A character iterator in the hands of a caller: iterator.closure is the  *)
(* iterator, iterator.startPos and iterator.endPos the positions it was    *)
(* created with (NullPos for a null endPos).  The character options are    *)
(* the defaults of the build.                                              *)
(***************************************************************************)
IteratorDocs == {2, 4, 5}

IteratorOps == {"createCharacterIterator", "next", "rewind"}

\* createCharacterIterator(startPos, backward, endPos, characterOptions),
\* the first operation on a fresh page
CreateCharacterIterator(startPos, backward, endPos) ==
  /\ iterator' = [closure |-> createCharacterIterator(impl, doc, startPos,
                                                      backward, endPos),
                  startPos |-> startPos, endPos |-> endPos]
  /\ last' = OpRecord("createCharacterIterator",
                      [startPos |-> startPos, backward |-> backward,
                       endPos |-> endPos],
                      NoOut, FALSE, Current, Current)
  /\ prev' = last
  /\ UNCHANGED <<calls, impl, doc, rs, re, lb>>

\* iterator.next()
IteratorNext ==
  /\ last.op \in IteratorOps
  /\ \E r \in {iteratorNext(impl, doc, defaultCharacterOptions(impl),
                             iterator.closure)} :
       /\ iterator' = [iterator EXCEPT !.closure = r.it]
       /\ last' = OpRecord("next", [it |-> iterator.closure],
                           [textPos |-> r.textPos],
                           r.textPos.character = Throw, Current, Current)
  /\ prev' = last
  /\ UNCHANGED <<calls, impl, doc, rs, re, lb>>

\* iterator.rewind()
IteratorRewind ==
  /\ last.op \in IteratorOps
  /\ \E r \in {iteratorRewind(iterator.closure)} :
       /\ iterator' = [iterator EXCEPT !.closure = r.it]
       /\ last' = OpRecord("rewind", [it |-> iterator.closure], NoOut,
                           r.raised, Current, Current)
  /\ prev' = last
  /\ UNCHANGED <<calls, impl, doc, rs, re, lb>>

InitIterator == InitCommon /\ doc \in IteratorDocs

\* the first operation on a fresh page creates the iterator, either as
\* createRangeCharacterIterator(range, characterOptions, backward) does
\* for a range from s to e, or with a null endPos from s
NextIterator ==
  \/ /\ last = NoOp
     /\ \E ps \in {IteratorPositions(doc)} :
        \E s \in ps, e \in ps, backward \in BOOLEAN, withEnd \in BOOLEAN :
          /\ IF withEnd THEN comparePoints(doc, s, e) # 1 ELSE e = s
          /\ CreateCharacterIterator(IF backward THEN e ELSE s, backward,
               IF ~withEnd THEN NullPos ELSE IF backward THEN s ELSE e)
  \/ IteratorNext
  \/ IteratorRewind

SpecIterator == InitIterator /\ [][NextIterator]_vars

\* what the caller's next call of next() would return
UpcomingNext(it) ==
  iteratorNext(impl, doc, defaultCharacterOptions(impl), it)

\* the last two operations are a rewind() that succeeded, made with no
\* rewind pending, and a next()
RewoundCase ==
  /\ last.op = "next"
  /\ prev.op = "rewind"
  /\ ~prev.raised
  /\ ~prev.args.it.returnPreviousTextPos

\* C13: after next() has returned a character c, rewind() followed by
\* next() returns c again, and the next() after that returns what would
\* have followed c had rewind() never been called (the iterator is then in
\* the state it would have been in): c is delivered again exactly once and
\* nothing is skipped.
C13_RewindRedeliversOnce ==
  RewoundCase =>
    /\ last.out.textPos = prev.args.it.previousTextPos
    /\ last.out.textPos # NoChar
    /\ UpcomingNext(iterator.closure) = UpcomingNext(prev.args.it)

\* a character was delivered again after a rewind and another character
\* follows it
C13_Witness ==
  /\ RewoundCase
  /\ UpcomingNext(iterator.closure).textPos # NoChar
  /\ UpcomingNext(iterator.closure).textPos # last.out.textPos

\* the last operation is a rewind() made when no character has been freshly
\* delivered: right after the creation of the iterator or after another
\* rewind()
NothingToRewindCase ==
  /\ last.op = "rewind"
  /\ prev.op \in {"createCharacterIterator", "rewind"}

\* C14: rewind() raises whenever there is no freshly delivered character,
\* both before any next() has returned a character and on a second rewind()
\* with no next() in between, and a rewind that fails leaves the iterator
\* unchanged.
C14_RewindWithoutFreshCharacterRaises ==
  NothingToRewindCase =>
    last.raised /\ iterator.closure = last.args.it

\* rewind() before next() has returned any character raises and leaves the
\* iterator unchanged
C14_RewindBeforeAnyCharacterRaises ==
  (last.op = "rewind" /\ last.args.it.previousTextPos = NoChar) =>
    last.raised /\ iterator.closure = last.args.it

\* the earlier and the later of the positions the iterator was created with
LowerPos ==
  IF comparePoints(doc, iterator.startPos, iterator.endPos) = 1
  THEN iterator.endPos ELSE iterator.startPos

UpperPos ==
  IF comparePoints(doc, iterator.startPos, iterator.endPos) = 1
  THEN iterator.startPos ELSE iterator.endPos

\* the last next() returned a character
DeliveredCase == last.op = "next" /\ last.out.textPos # NoChar

\* the character of the last next() lies after LowerPos and not after
\* UpperPos
WithinBounds ==
  /\ comparePoints(doc, last.out.textPos.position, LowerPos) = 1
  /\ comparePoints(doc, last.out.textPos.position, UpperPos) # 1

C20_NonEmpty == DeliveredCase => last.out.textPos.character # ""

C20_NullStaysNull ==
  (last.op = "next" /\ prev.op = "next" /\ prev.out.textPos = NoChar) =>
    last.out.textPos = NoChar

\* C20: every character next() returns has non-empty text; an iterator
\* created with an end position returns only characters at positions p with
\* lower < p <= upper, lower and upper being the earlier and the later of
\* its start and end positions; once next() has returned null with no
\* rewind pending, every later next() returns null.
C20_IteratorStaysInBounds ==
  /\ C20_NonEmpty
  /\ C20_NullStaysNull
  /\ (DeliveredCase /\ iterator.endPos # NullPos) => WithinBounds

\* the bounds for an iterator over a range that is not collapsed, in the
\* dev build
C20_DevBounds ==
  (DeliveredCase /\ iterator.endPos # NullPos /\ impl = "dev"
     /\ iterator.endPos # iterator.startPos) => WithinBounds

(***************************************************************************)
(* Moving and expanding the range by a unit, with the default options.     *)
(***************************************************************************)
\* the units callers pass: the two the module knows and one it does not
Units == {CHARACTER, WORD, "sentence"}

UnitDocs == {7}

\* range.moveStart, range.moveEnd and range.move (unit, count): the three
\* functions createRangeBoundaryMover makes
MoveBoundary(op, unit, count) ==
  \E r \in {createRangeBoundaryMover(impl, doc, op # "moveEnd", op = "move",
                                      Current, unit, count,
                                      defaultCharacterOptions(impl),
                                      defaultWordOptions)} :
     /\ rs' = r.range.start
     /\ re' = r.range.end
     /\ lb' = sessionAfter(impl, lb, r.raised)
     /\ prev' = NoOp
     /\ last' = OpRecord(op, [unit |-> unit, count |-> count],
                         [unitsMoved |-> r.unitsMoved], r.raised, Current,
                         r.range)
     /\ UNCHANGED <<calls, impl, doc, iterator>>

\* range.expand(unit)
Expand(unit) ==
  \E r \in {expand(impl, doc, Current, unit, defaultCharacterOptions(impl),
                    defaultWordOptions)} :
     /\ rs' = r.range.start
     /\ re' = r.range.end
     /\ lb' = sessionAfter(impl, lb, r.raised)
     /\ prev' = NoOp
     /\ last' = OpRecord("expand", [unit |-> unit, count |-> 0],
                         [moved |-> r.moved], r.raised, Current, r.range)
     /\ UNCHANGED <<calls, impl, doc, iterator>>

InitUnits == InitCommon /\ doc \in UnitDocs

NextUnits ==
  \/ \E i \in 0 .. MaxIndex, j \in 0 .. MaxIndex :
       i <= j /\ SelectCharacters(2, i, j, FALSE)
  \/ \E op \in {"moveStart", "moveEnd", "move"}, unit \in Units,
        count \in -MaxCount .. MaxCount :
       MoveBoundary(op, unit, count)
  \/ \E unit \in Units : Expand(unit)

SpecUnits == InitUnits /\ [][NextUnits]_vars

\* the last operation is a move or an expand with a unit that is neither
\* "character" nor "word"
UnknownUnitCase ==
  /\ last.op \in {"moveStart", "moveEnd", "move", "expand"}
  /\ last.args.unit \notin {CHARACTER, WORD}

\* C15: moveStart, moveEnd, move and expand called with a unit other than
\* "character" or "word" raise, for every count (0 included) and every
\* range, and leave the range boundaries unchanged.
C15_UnknownUnitRaises ==
  UnknownUnitCase => last.raised /\ last.after = last.before

\* moveStart and moveEnd with an unknown unit and a count other than 0
\* raise and leave the range unchanged
C15_MoveByUnknownUnitRaises ==
  (UnknownUnitCase /\ last.op \in {"moveStart", "moveEnd"}
     /\ last.args.count # 0) =>
    last.raised /\ last.after = last.before

(***************************************************************************)
(* The classification functions on a node and the character at a          *)
(* position, called on their own.                                         *)
(***************************************************************************)
ClassifierDocs ==
  {4, 5} \cup PreLineDocs \cup InlineBodyDocs \cup WhitespaceNodeDocs

\* the pages the character functions are called on: on a page without a
\* block body the characters are not modelled
CharacterDocs == ClassifierDocs \ InlineBodyDocs

\* isCollapsedNode, isIgnoredNode, isWhitespaceNode and
\* isCollapsedWhitespaceNode of node n, called one after the other
Classify(n) ==
  /\ doc \in ClassifierDocs
  /\ \E r \in {classify(impl, doc, n)} :
       last' = OpRecord("classify", [node |-> n],
                        [isCollapsedNode |-> r.isCollapsedNode,
                         isIgnoredNode |-> r.isIgnoredNode,
                         isWhitespaceNode |-> r.isWhitespaceNode,
                         isCollapsedWhitespaceNode |->
                           r.isCollapsedWhitespaceNode],
                        r.raised, Current, Current)
  /\ UNCHANGED <<calls, impl, doc, rs, re, lb, prev, iterator>>

\* getCharacterAt(pos, transaction, options) of the old module, the
\* character of the position in the dev build
GetCharacterAt(pos, options) ==
  /\ doc \in CharacterDocs
  /\ \E textPos \in {CharacterAt(impl, doc, pos, options)} :
       last' = OpRecord("getCharacterAt", [pos |-> pos, options |-> options],
                        [textPos |-> textPos], textPos.character = Throw,
                        Current, Current)
  /\ UNCHANGED <<calls, impl, doc, rs, re, lb, prev, iterator>>

InitClassifier ==
  /\ impl \in Impls
  /\ doc \in ClassifierDocs
  /\ rs = Pos(1, 0)
  /\ re = Pos(1, 0)
  /\ lb = FALSE
  /\ last = NoOp
  /\ prev = NoOp
  /\ iterator = [closure |-> NoIterator, startPos |-> NullPos,
                 endPos |-> NullPos]
  /\ calls = NoCalls

NextClassifier ==
  \/ \E n \in Nodes(doc) : Classify(n)
  \/ \E ps \in {Positions(doc)} :
       \E pos \in ps, options \in UsedOptions : GetCharacterAt(pos, options)

SpecClassifier == InitClassifier /\ [][NextClassifier]_vars

\* C16: the classification functions and the character functions return a
\* value and never raise, for every node and every position of every
\* well-formed tree, whatever the white-space mode and the ancestors.
C16_ClassifiersTotal ==
  last.op \in {"classify", "getCharacterAt"} => ~last.raised

\* the classification functions and the character functions of the dev
\* build never raise
C16_DevClassifiersTotal ==
  (impl = "dev" /\ last.op \in {"classify", "getCharacterAt"}) =>
    ~last.raised

\* outside pre-line text the character functions never raise
C16_CharactersTotalOutsidePreLine ==
  (last.op = "getCharacterAt" /\ doc \notin PreLineDocs) => ~last.raised

\* on a page with a block body the classification functions never raise
C16_ClassifiersTotalUnderBlock ==
  (last.op = "classify" /\ doc \notin InlineBodyDocs) => ~last.raised

(***************************************************************************)
(* toCharacterRange against the text between the container and the range.  *)
(***************************************************************************)
\* the last operation is a toCharacterRange that returned
ToCharacterRangeCase == last.op = "toCharacterRange" /\ ~last.raised

\* the point the offsets are measured from: (parent, nodeIndex) of the
\* container
ContainerPoint ==
  Pos(parentNode(doc, last.args.node), getNodeIndex(doc, last.args.node))

\* the range's start boundary precedes the container in document order
StartPrecedesContainer ==
  comparePoints(doc, last.before.start, ContainerPoint) = -1

\* the number of visible characters between the container's start and the
\* range's start boundary
CharactersBetween ==
  Len(text(impl, doc,
           IF StartPrecedesContainer
           THEN Range(last.before.start, ContainerPoint)
           ELSE Range(ContainerPoint, last.before.start),
           createOptions(impl, last.args.flip)))

\* C17: toCharacterRange(container) returns start <= end with end - start
\* the length of the range's text(); |start| is the number of visible
\* characters between the start of the container and the range's start,
\* negative when the range's start precedes the container; the range is
\* left unchanged.
C17_ToCharacterRangeOffsets ==
  ToCharacterRangeCase =>
    /\ last.out.start <= last.out.end
    /\ last.out.end - last.out.start =
         Len(text(impl, doc, last.before,
                  createOptions(impl, last.args.flip)))
    /\ last.out.start = IF StartPrecedesContainer THEN -CharactersBetween
                        ELSE CharactersBetween
    /\ last.after = last.before

\* start <= end, end - start is the length of text(), and the range is
\* left unchanged
C17_LengthAndRangeKept ==
  ToCharacterRangeCase =>
    /\ last.out.start <= last.out.end
    /\ last.out.end - last.out.start =
         Len(text(impl, doc, last.before,
                  createOptions(impl, last.args.flip)))
    /\ last.after = last.before

\* the range's start boundary lies in the container or in a descendant
StartInsideContainer ==
  \E i \in 1 .. Len(getAncestorsAndSelf(doc, last.before.start.node)) :
    getAncestorsAndSelf(doc, last.before.start.node)[i] = last.args.node

\* when the range starts inside the container, start is the number of
\* visible characters before the range's start
C17_StartInsideContainer ==
  (ToCharacterRangeCase /\ StartInsideContainer) =>
    last.out.start = CharactersBetween

(***************************************************************************)
(* The two scans of isCollapsedWhitespaceNode, restated over the nodes in  *)
(* tree order.                                                             *)
(***************************************************************************)
\* the nodes of the subtree of n in tree order
RECURSIVE TreeOrder(_, _)
RECURSIVE TreeOrderOfAll(_, _)
TreeOrder(d, n) == <<n>> \o TreeOrderOfAll(d, childNodes(d, n))

TreeOrderOfAll(d, ns) ==
  IF ns = <<>> THEN <<>>
  ELSE TreeOrder(d, Head(ns)) \o TreeOrderOfAll(d, Tail(ns))

\* the place of node n in the tree order of the page
OrderIndex(d, n) ==
  CHOOSE i \in 1 .. Len(TreeOrder(d, 1)) : TreeOrder(d, 1)[i] = n

\* a scan returns at m: a block node or a br
IsBoundary(d, m) == isBlockNode(d, m) \/ isHtmlElement(d, m, "br")

\* a scan stops at m: a text node that is not a whitespace node, or an img
IsHardStop(d, m) ==
  \/ (NodeOf(d, m).type = TEXT_NODE /\ ~isWhitespaceNode(d, m))
  \/ isHtmlElement(d, m, "img")

\* going backward from n in tree order, a block node or a br comes before
\* any hard stop
BackwardReachesBoundary(d, n) ==
  LET order == TreeOrder(d, 1)
      at == OrderIndex(d, n)
  IN \E i \in 1 .. at - 1 :
       /\ IsBoundary(d, order[i])
       /\ \A j \in i + 1 .. at - 1 :
            ~IsBoundary(d, order[j]) /\ ~IsHardStop(d, order[j])

\* the nearest ancestor of n that is a block node, the root when none is
NearestBlockAncestor(d, n) ==
  LET ancestors == getAncestors(d, n)
      blocks == {i \in 1 .. Len(ancestors) : isBlockNode(d, ancestors[i])}
  IN IF blocks = {} THEN ancestors[1]
     ELSE ancestors[CHOOSE i \in blocks : \A j \in blocks : j <= i]

\* going forward from n in tree order, through the subtree of the nearest
\* block ancestor and the one node that follows it, a block node or a br
\* comes before any hard stop
ForwardReachesBoundary(d, n) ==
  LET order == TreeOrder(d, 1)
      at == OrderIndex(d, n)
      block == NearestBlockAncestor(d, n)
      stop == OrderIndex(d, block) + Len(TreeOrder(d, block))
      upTo == IF stop <= Len(order) THEN stop ELSE Len(order)
  IN \E i \in at + 1 .. upTo :
       /\ IsBoundary(d, order[i])
       /\ \A j \in at + 1 .. i - 1 :
            ~IsBoundary(d, order[j]) /\ ~IsHardStop(d, order[j])

\* the last operation classified a text node of white space only that is
\* not empty, is eligible for collapsing and has no display:none ancestor,
\* and returned
ScannedCase ==
  /\ last.op = "classify"
  /\ ~last.raised
  /\ last.out.isWhitespaceNode
  /\ NodeOf(doc, last.args.node).data # <<>>
  /\ ~isHidden(doc, last.args.node)

\* a scan of the node classified last reaches a block node or a br
ScanReachesBoundary ==
  \/ BackwardReachesBoundary(doc, last.args.node)
  \/ ForwardReachesBoundary(doc, last.args.node)

Classified == NodeOf(doc, last.args.node)

\* the last operation classified a node and returned
ClassifiedCase == last.op = "classify" /\ ~last.raised

IsCommentOrInstruction ==
  Classified.type \in {COMMENT_NODE, PROCESSING_INSTRUCTION_NODE}

IsDisplayNoneElement ==
  Classified.type = ELEMENT_NODE
    /\ getComputedDisplay(doc, last.args.node) = "none"

IsScriptOrStyle ==
  Classified.type = ELEMENT_NODE /\ Classified.tag \in {"script", "style"}

IsVisibilityHiddenText ==
  /\ Classified.type = TEXT_NODE
  /\ NodeOf(doc, Classified.parent).type = ELEMENT_NODE
  /\ NodeOf(doc, Classified.parent).vis = "hidden"

\* an element or a text node that is none of the above and has no
\* display:none ancestor
IsOrdinaryVisible ==
  /\ Classified.type \in {ELEMENT_NODE, TEXT_NODE}
  /\ ~IsDisplayNoneElement
  /\ ~IsScriptOrStyle
  /\ ~IsVisibilityHiddenText
  /\ ~isHidden(doc, last.args.node)

\* C19: isIgnoredNode(node) is true exactly for a comment node, a
\* processing-instruction node and an element with computed display none;
\* a script or style element and a text node whose parent has computed
\* visibility hidden are counted by isCollapsedNode, not by isIgnoredNode.
C19_IgnoredNodes ==
  ClassifiedCase =>
    /\ last.out.isIgnoredNode <=>
         (IsCommentOrInstruction \/ IsDisplayNoneElement)
    /\ (IsScriptOrStyle \/ IsVisibilityHiddenText) =>
         last.out.isCollapsedNode

\* a text node under visibility:hidden was classified: collapsed, not
\* ignored
C19_Witness ==
  /\ ClassifiedCase
  /\ IsVisibilityHiddenText
  /\ last.out.isCollapsedNode
  /\ ~last.out.isIgnoredNode

\* the statement with script and style elements and text under
\* visibility:hidden counted by isIgnoredNode
C19_IgnoredNodesWide ==
  ClassifiedCase =>
    /\ (IsCommentOrInstruction \/ IsDisplayNoneElement \/ IsScriptOrStyle
          \/ IsVisibilityHiddenText) => last.out.isIgnoredNode
    /\ IsOrdinaryVisible => ~last.out.isIgnoredNode

(***************************************************************************)
(* The tokenized text provider: the tokens successive calls return.        *)
(***************************************************************************)
ProviderDocs == {1, 3, 7}

ProviderOps ==
  {"createTokenizedTextProvider", "nextEndToken", "previousStartToken"}

\* createTokenizedTextProvider(pos, characterOptions, wordOptions)
CreateTokenizedTextProvider(pos, includeTrailingSpace) ==
  /\ last = NoOp
  /\ \E pr \in {createTokenizedTextProvider(impl, doc, pos,
                     defaultCharacterOptions(impl),
                     WordOptions(includeTrailingSpace))} :
       /\ iterator' = [closure |-> pr, startPos |-> pos, endPos |-> NullPos,
                       wordOptions |-> WordOptions(includeTrailingSpace)]
       /\ last' = OpRecord("createTokenizedTextProvider",
                           [pos |-> pos,
                            includeTrailingSpace |-> includeTrailingSpace],
                           [token |-> NoToken], pr.raised, Current, Current)
  /\ prev' = last
  /\ UNCHANGED <<calls, impl, doc, rs, re, lb>>

\* provider.nextEndToken() and provider.previousStartToken()
ProviderToken(backward) ==
  /\ last.op \in ProviderOps
  /\ ~last.raised
  /\ \E r \in {IF backward
                THEN previousStartToken(impl, doc,
                       defaultCharacterOptions(impl), iterator.wordOptions,
                       iterator.closure)
                ELSE nextEndToken(impl, doc, defaultCharacterOptions(impl),
                       iterator.wordOptions, iterator.closure)} :
       /\ iterator' = [iterator EXCEPT !.closure = r.pr]
       /\ last' = OpRecord(IF backward THEN "previousStartToken"
                           ELSE "nextEndToken",
                           [pos |-> iterator.startPos,
                            includeTrailingSpace |->
                              iterator.wordOptions.includeTrailingSpace],
                           [token |-> r.token], r.pr.raised, Current,
                           Current)
  /\ prev' = last
  /\ UNCHANGED <<calls, impl, doc, rs, re, lb>>

InitProvider == InitCommon /\ doc \in ProviderDocs

NextProvider ==
  \/ \E ps \in {IteratorPositions(doc)} :
       \E pos \in ps, includeTrailingSpace \in BOOLEAN :
         CreateTokenizedTextProvider(pos, includeTrailingSpace)
  \/ \E backward \in BOOLEAN : ProviderToken(backward)

SpecProvider == InitProvider /\ [][NextProvider]_vars

\* the visible characters ahead of the provider's position in the
\* direction of the last call, nearest first
StreamAhead ==
  drain(impl, doc, defaultCharacterOptions(impl),
        createCharacterIterator(impl, doc, iterator.startPos,
                                last.op = "previousStartToken", NullPos))

\* the characters of a token in the order the last call's direction meets
\* them
InDirection(token) ==
  IF last.op = "previousStartToken" THEN Reverse(token.chars)
  ELSE token.chars

\* the place in the stream of the character at position p, 0 when none
StreamIndex(p) ==
  IF \E i \in 1 .. Len(StreamAhead) : StreamAhead[i].position = p
  THEN CHOOSE i \in 1 .. Len(StreamAhead) : StreamAhead[i].position = p
  ELSE 0

\* how much of the stream the calls before the last one have returned
ReturnedBefore ==
  IF prev.op = last.op /\ prev.out.token # NoToken
  THEN StreamIndex(InDirection(prev.out.token)[
                     Len(prev.out.token.chars)].position)
  ELSE 0

\* the last two operations are calls in one direction, or the creation and
\* the first call
SuccessiveCase ==
  /\ last.op \in {"nextEndToken", "previousStartToken"}
  /\ prev.op \in {last.op, "createTokenizedTextProvider"}
  /\ prev.op = last.op => prev.out.token # NoToken

\* C21: the tokens successive nextEndToken() calls return are a gap-free,
\* duplicate-free stream: each token begins at the visible character that
\* follows the last character of the token before it, and no token is
\* returned only when no visible character remains ahead; likewise for
\* previousStartToken() going backward.
C21_TokenStream ==
  SuccessiveCase =>
    /\ ~last.raised
    /\ IF last.out.token = NoToken THEN ReturnedBefore = Len(StreamAhead)
       ELSE prev.op = last.op =>
              /\ Len(last.out.token.chars) > 0
              /\ \A k \in 1 .. Len(last.out.token.chars) :
                   /\ ReturnedBefore + k <= Len(StreamAhead)
                   /\ InDirection(last.out.token)[k] =
                        StreamAhead[ReturnedBefore + k]

\* the tokens a call returns are never out of place: they begin where the
\* token before them ended
C21_NoGapNoDuplicate ==
  (SuccessiveCase /\ prev.op = last.op /\ ~last.raised
     /\ last.out.token # NoToken) =>
    \A k \in 1 .. Len(last.out.token.chars) :
      /\ ReturnedBefore + k <= Len(StreamAhead)
      /\ InDirection(last.out.token)[k] = StreamAhead[ReturnedBefore + k]

\* going forward without trailing spaces in the words, the stream is
\* complete as well
C21_ForwardWithoutTrailingSpace ==
  (SuccessiveCase /\ last.op = "nextEndToken"
     /\ ~last.args.includeTrailingSpace) =>
    /\ ~last.raised
    /\ last.out.token = NoToken => ReturnedBefore = Len(StreamAhead)

(***************************************************************************)
(* Searching for a pattern from a position.                                *)
(***************************************************************************)
PatternDocs == {1, 7}

\* findTextFromPosition for a pattern, the scope being the whole document
FindTextFromPosition(initialPos, pattern, backward) ==
  \E r \in {findTextFromPositionRegex(impl, doc, initialPos, pattern,
               selectNodeContents(doc, 1),
               FindOptions(TRUE, FALSE, FALSE, backward, NoRange))} :
     /\ last' = OpRecord("findTextFromPosition",
                         [initialPos |-> initialPos, pattern |-> pattern,
                          backward |-> backward],
                         [found |-> r.found, startPos |-> r.startPos,
                          endPos |-> r.endPos],
                         r.raised, Current, Current)
     /\ UNCHANGED <<calls, impl, doc, rs, re, lb, prev, iterator>>

InitPattern == InitCommon /\ doc \in PatternDocs

NextPattern ==
  \E ps \in {IteratorPositions(doc)} :
    \E initialPos \in ps, pattern \in Patterns, backward \in BOOLEAN :
      FindTextFromPosition(initialPos, pattern, backward)

SpecPattern == InitPattern /\ [][NextPattern]_vars

\* the visible characters of the scope from the initial position in the
\* search direction, nearest first
Searched ==
  drain(impl, doc, findOptionsAsCharacterOptions,
        createCharacterIterator(impl, doc, last.args.initialPos,
          last.args.backward,
          IF last.args.backward THEN selectNodeContents(doc, 1).start
          ELSE selectNodeContents(doc, 1).end))

\* the characters accumulated after k of them were read, in document order
Accumulated(k) ==
  IF last.args.backward THEN Reverse(SubSeq(Searched, 1, k))
  ELSE SubSeq(Searched, 1, k)

MatchAt(k) == regexExec(last.args.pattern, Characters(Accumulated(k)))

\* the numbers of characters read at which the pattern matches
MatchingLengths == {k \in 1 .. Len(Searched) : MatchAt(k).found}

\* the match's bounds are strictly interior to the accumulated text
IsInterior(k) ==
  IF last.args.backward THEN MatchAt(k).index > 0 ELSE MatchAt(k).end < k

\* the number of characters read at the moment of completion: the first
\* time the pattern, having matched before, matches with interior bounds;
\* the whole scope when that never happens
Completion ==
  LET interior == {k \in MatchingLengths :
                     /\ IsInterior(k)
                     /\ \E j \in MatchingLengths : j < k}
  IN IF interior = {} THEN Len(Searched)
     ELSE CHOOSE k \in interior : \A j \in interior : k <= j

PatternCase == last.op = "findTextFromPosition"

\* C22: for a pattern, findTextFromPosition returns null when the pattern
\* never matches the visible text of the scope in the search direction, and
\* otherwise a result whose positions delimit the characters of the
\* pattern's match in the text accumulated at completion (interior bounds,
\* or the scope exhausted).
C22_PatternMatch ==
  PatternCase =>
    /\ ~last.raised
    /\ last.out.found <=> MatchingLengths # {}
    /\ (last.out.found /\ MatchAt(Completion).found) =>
         /\ last.out.endPos =
              Accumulated(Completion)[MatchAt(Completion).end].position
         /\ last.out.startPos =
              previousVisible(impl, doc,
                Accumulated(Completion)[
                  MatchAt(Completion).index + 1].position)

\* a pattern that never matches gives null, and a match completed with
\* interior bounds is delimited by the result
C22_InteriorMatch ==
  PatternCase =>
    /\ MatchingLengths = {} => (~last.raised /\ ~last.out.found)
    /\ (Completion \in MatchingLengths /\ IsInterior(Completion)
          /\ \E j \in MatchingLengths : j < Completion) =>
         /\ ~last.raised
         /\ last.out.found
         /\ last.out.endPos =
              Accumulated(Completion)[MatchAt(Completion).end].position
         /\ last.out.startPos =
              previousVisible(impl, doc,
                Accumulated(Completion)[
                  MatchAt(Completion).index + 1].position)

(***************************************************************************)
(* findText with whole words, wrapping and a scope: how the search ends.   *)
(***************************************************************************)
SearchTerms == {<<"a", "b">>, <<"b", " ", "a">>}

\* the scopes: the whole document and characters 0..3 of the text node
SearchScopes == {NoRange, Range(Pos(3, 0), Pos(3, 3))}

InitSearch == InitCommon /\ doc = 7

NextSearch ==
  \/ \E i \in 0 .. MaxLength, j \in 0 .. MaxLength :
       i <= j /\ SelectCharacters(2, i, j, FALSE)
  \/ \E term \in SearchTerms, wholeWordsOnly \in BOOLEAN, wrap \in BOOLEAN,
        backward \in BOOLEAN, withinRange \in SearchScopes :
       FindText(term, FindOptions(TRUE, wholeWordsOnly, wrap, backward,
                                  withinRange))

SpecSearch == InitSearch /\ [][NextSearch]_vars

FindTextCase == last.op = "findText"

\* the scope of the last search
SearchScope ==
  IF last.args.findOptions.withinRange = NoRange
  THEN selectNodeContents(doc, 1)
  ELSE last.args.findOptions.withinRange

\* the position the last search started from
InitialPosition ==
  LET seed == IF last.args.findOptions.backward THEN last.before.end
              ELSE last.before.start
      comparison == comparePoint(doc, SearchScope, seed)
  IN IF comparison = -1 THEN SearchScope.start
     ELSE IF comparison = 1 THEN SearchScope.end
     ELSE seed

\* the part of the scope the first pass did not search
Unsearched ==
  IF last.args.findOptions.backward
  THEN Range(InitialPosition, SearchScope.end)
  ELSE Range(SearchScope.start, InitialPosition)

\* range r lies within range s
Within(r, s) ==
  /\ comparePoints(doc, s.start, r.start) # 1
  /\ comparePoints(doc, r.end, s.end) # 1

\* C23: every findText call terminates and returns: it wraps at most once,
\* a match found by the wrapped pass lies in the part of the scope not yet
\* searched, and when nothing is found it returns false.
C23_FindTextTerminates ==
  FindTextCase =>
    /\ ~last.out.diverged
    /\ ~last.raised
    /\ last.out.wrappedAround => last.args.findOptions.wrap
    /\ (last.out.value /\ last.out.wrappedAround) =>
         Within(last.after, Unsearched)

\* every findText call ends within the searches its scope allows, and it
\* wraps only when wrap is on
C23_SearchesBounded ==
  FindTextCase =>
    /\ ~last.out.diverged
    /\ last.out.wrappedAround => last.args.findOptions.wrap

(***************************************************************************)
(* trimStart, trimEnd and trim.                                            *)
(***************************************************************************)
TrimDocs == {2, 7}

TrimOps == {"trimStart", "trimEnd", "trim"}

\* range.trimStart(), range.trimEnd() and range.trim() with the default
\* character options
Trim(op) ==
  \E r \in {IF op = "trim"
            THEN trim(impl, doc, Current, defaultCharacterOptions(impl))
            ELSE createRangeTrimmer(impl, doc, op = "trimStart", Current,
                                    defaultCharacterOptions(impl))} :
     /\ rs' = r.range.start
     /\ re' = r.range.end
     /\ lb' = sessionAfter(impl, lb, r.raised)
     /\ prev' = NoOp
     /\ last' = OpRecord(op, NoArgs, [value |-> r.value], r.raised,
                         Current, r.range)
     /\ UNCHANGED <<calls, impl, doc, iterator>>

InitTrim == InitCommon /\ doc \in TrimDocs

NextTrim ==
  \/ \E i \in 0 .. MaxLength, j \in 0 .. MaxLength :
       i <= j /\ SelectCharacters(2, i, j, FALSE)
  \/ \E op \in TrimOps : Trim(op)

SpecTrim == InitTrim /\ [][NextTrim]_vars

\* text() of the range before and after the last operation
TextBefore == text(impl, doc, last.before, defaultCharacterOptions(impl))

TextAfter == text(impl, doc, last.after, defaultCharacterOptions(impl))

\* the length of the maximal leading whitespace run of t
RECURSIVE leadingRun(_)
leadingRun(t) ==
  IF t = <<>> \/ ~allWhiteSpace(Head(t)) THEN 0
  ELSE 1 + leadingRun(Tail(t))

trailingRun(t) == leadingRun(Reverse(t))

\* C24: trimStart (trimEnd) returns true exactly when text() begins (ends)
\* with whitespace; afterwards text() is the previous text() without its
\* leading (trailing) whitespace run, the other boundary is unchanged, and
\* a call that returns false leaves the range unchanged.
C24_TrimRemovesWhitespaceRun ==
  /\ last.op = "trimStart" =>
       /\ ~last.raised
       /\ last.out.value = (leadingRun(TextBefore) > 0)
       /\ TextAfter = SubSeq(TextBefore, leadingRun(TextBefore) + 1,
                             Len(TextBefore))
       /\ last.after.end = last.before.end
       /\ ~last.out.value => last.after = last.before
  /\ last.op = "trimEnd" =>
       /\ ~last.raised
       /\ last.out.value = (trailingRun(TextBefore) > 0)
       /\ TextAfter = SubSeq(TextBefore, 1,
                             Len(TextBefore) - trailingRun(TextBefore))
       /\ last.after.start = last.before.start
       /\ ~last.out.value => last.after = last.before

\* the same for the ranges that are not collapsed
C24_TrimOfNonCollapsedRange ==
  ~collapsed(last.before) => C24_TrimRemovesWhitespaceRun

\* C27: trim never moves a boundary outside the original range, and on a
\* collapsed range trimStart, trimEnd and trim return false and change
\* nothing.
C27_TrimStaysInside ==
  last.op \in TrimOps =>
    /\ ~last.raised
    /\ comparePoints(doc, last.before.start, last.after.start) # 1
    /\ comparePoints(doc, last.after.end, last.before.end) # 1
    /\ collapsed(last.before) =>
         ~last.out.value /\ last.after = last.before

\* the same for the ranges that are not collapsed
C27_TrimOfNonCollapsedRange ==
  ~collapsed(last.before) => C27_TrimStaysInside

(***************************************************************************)
(* Moves that move nothing.                                                *)
(***************************************************************************)
MoveOps == {"moveStart", "moveEnd", "move"}

\* the last operation is a move by characters or words that returned 0
MovedNothingCase ==
  /\ last.op \in MoveOps
  /\ last.args.unit \in {CHARACTER, WORD}
  /\ ~last.raised
  /\ last.out.unitsMoved = 0

\* the range a move starts from: move collapses the range first, to its
\* end for a count of 0 or more and to its start otherwise
Departure ==
  IF last.op = "move" THEN collapse(last.before, last.args.count < 0)
  ELSE last.before

\* C28: a moveStart, moveEnd or move by characters or words raises no
\* error when the count is 0 or nothing is available in the direction, and
\* whenever it returns 0 the moved boundary is where it was before.
C28_MovedNothingStays ==
  /\ (last.op \in MoveOps /\ last.args.unit \in {CHARACTER, WORD}) =>
       ~last.raised
  /\ MovedNothingCase => last.after = Departure

\* a move forward, or by a count of 0, that returns 0 leaves the range it
\* starts from as it was
C28_ForwardMovedNothingStays ==
  (MovedNothingCase /\ last.args.count >= 0) => last.after = Departure

(***************************************************************************)
(* expand("word"), once and again.                                         *)
(***************************************************************************)
WordDocs == {1, 2, 3, 7, 8}

\* range.expand("word", {wordOptions: {includeTrailingSpace}}), remembering
\* the operation before it
ExpandWord(includeTrailingSpace) ==
  \E r \in {expand(impl, doc, Current, WORD, defaultCharacterOptions(impl),
                    WordOptions(includeTrailingSpace))} :
     /\ rs' = r.range.start
     /\ re' = r.range.end
     /\ lb' = sessionAfter(impl, lb, r.raised)
     /\ prev' = last
     /\ last' = OpRecord("expand",
                         [unit |-> WORD, count |-> 0,
                          includeTrailingSpace |-> includeTrailingSpace],
                         [moved |-> r.moved], r.raised, Current, r.range)
     /\ UNCHANGED <<calls, impl, doc, iterator>>

InitWords == InitCommon /\ doc \in WordDocs

NextWords ==
  \/ \E i \in 0 .. MaxLength, j \in 0 .. MaxLength :
       i <= j /\ SelectCharacters(2, i, j, FALSE)
  \/ \E includeTrailingSpace \in BOOLEAN : ExpandWord(includeTrailingSpace)

SpecWords == InitWords /\ [][NextWords]_vars

ExpandWordCase == last.op = "expand" /\ last.args.unit = WORD

\* expand("word") with the default word options
DefaultExpandCase == ExpandWordCase /\ ~last.args.includeTrailingSpace

\* the visible text of the body
BodyText ==
  text(impl, doc, selectNodeContents(doc, 2), defaultCharacterOptions(impl))

\* the number of characters of the body text before position p
OffsetOf(p) ==
  IF comparePoints(doc, p, Pos(2, 0)) # 1 THEN 0
  ELSE Len(text(impl, doc, Range(Pos(2, 0), p),
                defaultCharacterOptions(impl)))

IsWordChar(t, k) == k >= 1 /\ k <= Len(t) /\ t[k] \in WordChars

\* the words of text t, each as <<a, b>>: characters a+1 .. b are word
\* characters with none before and none after
WordsOf(t) ==
  {w \in (0 .. Len(t)) \X (0 .. Len(t)) :
     /\ w[1] < w[2]
     /\ \A k \in w[1] + 1 .. w[2] : IsWordChar(t, k)
     /\ ~IsWordChar(t, w[1])
     /\ ~IsWordChar(t, w[2] + 1)}

Touching(t, i) == {w \in WordsOf(t) : w[1] <= i /\ i <= w[2]}

\* the words expand may start at from offset i: the word touching i, or
\* else the next one
StartWords(t, i) ==
  IF Touching(t, i) # {} THEN Touching(t, i)
  ELSE {w \in WordsOf(t) :
          w[1] > i /\ \A v \in WordsOf(t) : v[1] > i => w[1] <= v[1]}

\* the words expand may end at from offset j: the word touching j, or else
\* the one before
EndWords(t, j) ==
  IF Touching(t, j) # {} THEN Touching(t, j)
  ELSE {w \in WordsOf(t) :
          w[2] < j /\ \A v \in WordsOf(t) : v[2] < j => v[2] <= w[2]}

\* C25: after expand("word") without trimming the start is at the beginning
\* of the word touching the old start, or else of the next word, the end is
\* at the end of the word touching or preceding the old end (the same word
\* for a collapsed range), and expand returns true exactly when a boundary
\* changed.
C25_ExpandToWords ==
  DefaultExpandCase =>
    /\ ~last.raised
    /\ \E w \in StartWords(BodyText, OffsetOf(last.before.start)) :
         OffsetOf(last.after.start) = w[1]
    /\ \E w \in EndWords(BodyText, OffsetOf(last.before.end)) :
         OffsetOf(last.after.end) = w[2]
    /\ collapsed(last.before) =>
         <<OffsetOf(last.after.start), OffsetOf(last.after.end)>>
           \in WordsOf(BodyText)
    /\ last.out.moved = (last.after # last.before)

\* expand("word") returns true exactly when a boundary changed
C25_MovedIsChanged ==
  (ExpandWordCase /\ ~last.raised) =>
    last.out.moved = (last.after # last.before)

\* expand("word") has just been applied to the range an expand("word")
\* with the same options produced
ExpandedAgainCase ==
  /\ ExpandWordCase
  /\ prev.op = "expand" /\ prev.args = last.args /\ ~prev.raised

MaxDepth == 3

CallKinds == {"entryPoint", "noMutation"}

\* the identity of the session object the variable lb holds
CurrentSession == IF lb THEN calls.created ELSE 0

\* a session object no call that is executing has seen
FreshSession ==
  CHOOSE m \in 1 .. MaxDepth :
    /\ \A i \in DOMAIN calls.frames : calls.frames[i].session # m
    /\ \A k \in 1 .. m - 1 :
         \E i \in DOMAIN calls.frames : calls.frames[i].session = k

\* the start of a call: "b = !!lb, c = ob()" of an entry-point function,
\* "b = ob()" of noMutation; ob() returns the live session or makes one
EnterCall(kind) ==
  /\ impl = "dev"
  /\ Len(calls.frames) < MaxDepth
  /\ calls' = [frames |-> Append(calls.frames,
                                 [kind |-> kind, b |-> lb,
                                  session |-> IF lb THEN calls.created
                                              ELSE FreshSession]),
               created |-> IF lb THEN calls.created ELSE FreshSession]
  /\ lb' = TRUE
  /\ prev' = NoOp
  /\ last' = OpRecord("enter", [kind |-> kind, raised |-> FALSE], NoOut,
                      FALSE, Current, Current)
  /\ UNCHANGED <<impl, doc, rs, re, iterator>>

\* the end of the innermost call: "return b || pb(), e" of an entry-point
\* function, "pb()" of noMutation; a call left by an exception runs neither
ReturnCall(raised) ==
  /\ impl = "dev"
  /\ calls.frames # <<>>
  /\ LET frame == calls.frames[Len(calls.frames)]
     IN /\ lb' = IF raised THEN lb
                 ELSE IF frame.kind = "noMutation" THEN FALSE
                 ELSE frame.b /\ lb
        /\ last' = OpRecord("return",
                            [kind |-> frame.kind, raised |-> raised], NoOut,
                            raised, Current, Current)
  /\ calls' = [calls EXCEPT
                !.frames = SubSeq(calls.frames, 1, Len(calls.frames) - 1)]
  /\ prev' = NoOp
  /\ UNCHANGED <<impl, doc, rs, re, iterator>>

NextNesting ==
  \/ \E kind \in CallKinds : EnterCall(kind)
  \/ \E raised \in BOOLEAN : ReturnCall(raised)

SpecNesting == InitCommon /\ [][NextNesting]_vars

\* C26: while an outermost call is executing, every nested entry-point and
\* noMutation call observes the session of the outer call, and that session
\* is still live when a nested call has returned.
C26_NestedCallsShareSession ==
  (calls.frames # <<>> /\ calls.frames[1].kind = "entryPoint") =>
    /\ lb
    /\ \A i \in DOMAIN calls.frames :
         calls.frames[i].session = CurrentSession

\* the return of a nested entry-point function that found a session at its
\* start leaves the session as it is
C26_NestedEntryPointKeepsSession ==
  [][(/\ Len(calls.frames) > 1
      /\ Len(calls'.frames) < Len(calls.frames)
      /\ calls.frames[Len(calls.frames)].kind = "entryPoint"
      /\ calls.frames[Len(calls.frames)].b)
     => (lb' = lb /\ calls'.created = calls.created)]_vars

(***************************************************************************)
(* What findText leaves changed.                                           *)
(***************************************************************************)
\* the last findText was given a withinRange
ScopedCase ==
  FindTextCase /\ last.args.findOptions.withinRange # NoRange

\* C30: a findText that does not return true leaves the boundaries of its
\* range as they were, and in every case the withinRange scope range keeps
\* its boundaries.
C30_FindTextChangesOnlyItsRange ==
  /\ (FindTextCase /\ ~last.out.value) => last.after = last.before
  /\ ScopedCase => last.out.scope = last.args.findOptions.withinRange

\* a search in a given scope has wrapped around and found nothing
C30_Witness ==
  /\ ScopedCase
  /\ last.out.wrappedAround
  /\ ~last.out.value
  /\ ~collapsed(last.before)

(***************************************************************************)
(* Content that is not rendered.                                           *)
(***************************************************************************)
HiddenDocs == {4, 6}

\* range.setStart and range.setEnd of rangy-core, putting the range at the
\* positions s and e
SetStartAndEnd(s, e) ==
  /\ comparePoints(doc, s, e) # 1
  /\ rs' = s
  /\ re' = e
  /\ prev' = NoOp
  /\ last' = OpRecord("setStartAndEnd", NoArgs, NoOut, FALSE,
                      Range(NullPos, NullPos), Range(s, e))
  /\ UNCHANGED <<calls, impl, doc, lb, iterator>>

InitHidden == InitCommon /\ doc \in HiddenDocs

\* the steps start at the position of a collapsed range
NextHidden ==
  \/ \E s \in IteratorPositions(doc), e \in IteratorPositions(doc) :
       SetStartAndEnd(s, e)
  \/ \E flip \in BOOLEAN : Text(flip)
  \/ collapsed(Current) /\ StepThereAndBack(rs)

SpecHidden == InitHidden /\ [][NextHidden]_vars

\* text node n is inside a script or style element, has an ancestor with
\* computed display none, or a parent with computed visibility hidden
IsHiddenText(d, n) ==
  /\ NodeOf(d, n).type = TEXT_NODE
  /\ \/ isHidden(d, n)
     \/ isVisibilityHiddenTextNode(d, n)
     \/ isHtmlElement(d, parentNode(d, n), "script")
     \/ isHtmlElement(d, parentNode(d, n), "style")

\* the characters of the text nodes that are not rendered; on the pages
\* here no rendered text node holds one of them
HiddenCharacters(d) ==
  {NodeOf(d, n).data[k] : <<n, k>> \in
     {nk \in Nodes(d) \X (1 .. MaxLength) :
        IsHiddenText(d, nk[1]) /\ nk[2] <= Len(NodeOf(d, nk[1]).data)}}

\* position p lies in a subtree that is not rendered
InsideHidden(d, p) ==
  \E k \in 1 .. Len(getAncestorsAndSelf(d, p.node)) :
     LET a == getAncestorsAndSelf(d, p.node)[k]
     IN \/ isHidden(d, a)
        \/ isVisibilityHiddenTextNode(d, a)
        \/ isHtmlElement(d, a, "script")
        \/ isHtmlElement(d, a, "style")

\* text() of a range with both boundaries outside the subtrees that are not
\* rendered
OutsideTextCase ==
  /\ last.op = "text"
  /\ ~InsideHidden(doc, last.before.start)
  /\ ~InsideHidden(doc, last.before.end)

\* a step from a position outside the subtrees that are not rendered
OutsideStepCase ==
  last.op = "nextVisiblePosition" /\ ~InsideHidden(doc, last.args.pos)

\* C6: text() of a range with its boundaries outside the subtrees that are
\* not rendered holds no character of a text node inside one, and visible
\* stepping from outside such a subtree does not enter it.
C6_HiddenContentInvisible ==
  /\ OutsideTextCase =>
       /\ ~last.raised
       /\ \A k \in 1 .. Len(last.out.text) :
            last.out.text[k] \notin HiddenCharacters(doc)
  /\ OutsideStepCase =>
       /\ last.out.next # NullPos => ~InsideHidden(doc, last.out.next)
       /\ last.out.back # NullPos => ~InsideHidden(doc, last.out.back)

\* text() of a range that spans the content that is not rendered
C6_Witness ==
  /\ OutsideTextCase
  /\ doc = 4
  /\ last.out.text = <<"a", "b">>

(***************************************************************************)
(* Runs of collapsible whitespace.                                         *)
(***************************************************************************)
\* a  b, <p>a </p><p>b</p> and a <span> b</span>: white-space is normal
\* everywhere, so every space of the text comes from collapsible whitespace
SpaceDocs == {1, 3, 5}

InitSpaces == InitCommon /\ doc \in SpaceDocs

NextSpaces ==
  \/ \E s \in IteratorPositions(doc), e \in IteratorPositions(doc) :
       SetStartAndEnd(s, e)
  \/ \E flip \in BOOLEAN : Text(flip)

SpecSpaces == InitSpaces /\ [][NextSpaces]_vars

TextCase == last.op = "text"

\* C7: a run of collapsible whitespace contributes at most one space to the
\* visible text, inside one text node or across inline elements: text() has
\* no two adjacent spaces, and text() over the container of "a  b" is "a b".
C7_WhitespaceRunsCollapse ==
  TextCase =>
    /\ ~last.raised
    /\ \A k \in 1 .. Len(last.out.text) - 1 :
         ~(last.out.text[k] = " " /\ last.out.text[k + 1] = " ")
    /\ (doc = 1 /\ last.before = selectNodeContents(doc, 2)) =>
         last.out.text = <<"a", " ", "b">>

\* on the pages whose whitespace runs lie inside one text node
C7_RunsInOneTextNode == doc \in {1, 3} => C7_WhitespaceRunsCollapse

(***************************************************************************)
(* A space before a br: 1 <br>2.                                           *)
(***************************************************************************)
BrTerms == {<<"1", " ">>, <<"1", "\n">>}

InitBr == InitCommon /\ doc = 2

NextBr ==
  \/ \E s \in IteratorPositions(doc), e \in IteratorPositions(doc) :
       SetStartAndEnd(s, e)
  \/ \E flip \in BOOLEAN : Text(flip)
  \/ \E term \in BrTerms, backward \in BOOLEAN :
       FindText(term, FindOptions(TRUE, FALSE, FALSE, backward, NoRange))

SpecBr == InitBr /\ [][NextBr]_vars

\* character options tell to collapse a space before a br
CollapsesSpaceBeforeBr(im, options) ==
  IF im = "old" THEN options.collapseSpaceBeforeLineBreak
  ELSE ~options.includeSpaceBeforeBr

\* text() over the contents of the body
WholeTextCase == TextCase /\ last.before = selectNodeContents(doc, 2)

\* the text of the body under the default character options
DefaultBodyText ==
  text(impl, doc, selectNodeContents(doc, 2), defaultCharacterOptions(impl))

\* the text of the body is "1\n2" when a space before a br collapses and
\* "1 \n2" when it does not
C8_TextFollowsFlag ==
  WholeTextCase =>
    last.out.text =
      IF CollapsesSpaceBeforeBr(impl, createOptions(impl, last.args.flip))
      THEN <<"1", "\n", "2">>
      ELSE <<"1", " ", "\n", "2">>

\* C8: for "1 <br>2" the text is "1\n2" when collapsing of a space before a
\* br is enabled and "1 \n2" when it is disabled, and findText works on the
\* text the same flag value gives: a term is found exactly when it occurs in
\* text() of the scope.
C8_BrSpaceFlag ==
  /\ C8_TextFollowsFlag
  /\ FindTextCase =>
       /\ ~last.raised
       /\ last.out.value => indexOf(DefaultBodyText, last.args.term) # -1

(***************************************************************************)
(* Moving a boundary by characters, there and back.                        *)
(***************************************************************************)
RoundTripDocs == {4, 7}

\* range.moveStart / range.moveEnd ("character", count) with the default
\* options
moveCharacters(im, d, op, r, count) ==
  createRangeBoundaryMover(im, d, op # "moveEnd", FALSE, r, CHARACTER, count,
                           defaultCharacterOptions(im), defaultWordOptions)

\* two calls in a row: range[op]("character", n), then
\* range[op]("character", -n); the second is not reached when the first
\* throws
MoveThereAndBack(op, n) ==
  \E there \in {moveCharacters(impl, doc, op, Current, n)} :
    \E back \in {IF there.raised THEN there
                 ELSE moveCharacters(impl, doc, op, there.range, -n)} :
     /\ rs' = back.range.start
     /\ re' = back.range.end
     /\ lb' = sessionAfter(impl, sessionAfter(impl, lb, there.raised),
                           back.raised)
     /\ prev' = NoOp
     /\ last' = OpRecord("moveThereAndBack", [op |-> op, count |-> n],
                         [there |-> there.unitsMoved,
                          back |-> back.unitsMoved,
                          middle |-> there.range,
                          thereRaised |-> there.raised],
                         back.raised, Current, back.range)
     /\ UNCHANGED <<calls, impl, doc, iterator>>

InitRoundTrip == InitCommon /\ doc \in RoundTripDocs

NextRoundTrip ==
  \/ \E s \in IteratorPositions(doc), e \in IteratorPositions(doc) :
       SetStartAndEnd(s, e)
  \/ \E op \in {"moveStart", "moveEnd"}, n \in 0 .. MaxCount :
       MoveThereAndBack(op, n)

SpecRoundTrip == InitRoundTrip /\ [][NextRoundTrip]_vars

\* text() of r with the default options
DefaultText(r) == text(impl, doc, r, defaultCharacterOptions(impl))

\* a boundary was moved forward by n characters, all n of them available,
\* and then backward by n
ThereAndBackCase ==
  /\ last.op = "moveThereAndBack"
  /\ ~last.out.thereRaised
  /\ last.out.there = last.args.count

\* C9: moving a boundary forward by n characters, n of them available and
\* no collapsed whitespace crossed, and then backward by n characters gives
\* a range whose text() is the text() of the range before the two moves.
C9_ThereAndBack ==
  ThereAndBackCase =>
    /\ ~last.raised
    /\ DefaultText(last.after) = DefaultText(last.before)

\* the two moves leave the boundary that was not moved where it was
OtherBoundaryKept ==
  IF last.args.op = "moveStart"
  THEN last.out.middle.end = last.before.end /\ last.after.end = last.before.end
  ELSE /\ last.out.middle.start = last.before.start
       /\ last.after.start = last.before.start

\* both boundaries of the range before the moves are visible positions
BoundariesVisible ==
  /\ IsVisiblePosition(impl, doc, last.before.start)
  /\ IsVisiblePosition(impl, doc, last.before.end)

\* with both boundaries at visible positions and the other boundary left
\* where it was, the two moves give back the text
C9_VisibleThereAndBack ==
  (ThereAndBackCase /\ OtherBoundaryKept /\ BoundariesVisible) =>
    /\ ~last.raised
    /\ DefaultText(last.after) = DefaultText(last.before)

(***************************************************************************)
(* The number a move by characters returns.                                *)
(***************************************************************************)
\* the last operation is a moveStart, moveEnd or move by characters
CharacterMoveCase == last.op \in MoveOps /\ last.args.unit = CHARACTER

\* the position the moved boundary leaves and the one it reaches
MovedFrom ==
  IF last.op = "moveEnd" THEN last.before.end
  ELSE IF last.op = "moveStart" THEN last.before.start
  ELSE Departure.start

MovedTo == IF last.op = "moveEnd" THEN last.after.end ELSE last.after.start

\* the visible characters after and before the position left
AvailableForward ==
  Len(DefaultText(Range(MovedFrom, selectNodeContents(doc, 1).end)))

AvailableBackward ==
  Len(DefaultText(Range(selectNodeContents(doc, 1).start, MovedFrom)))

\* the range between the position left and the position reached
Travelled ==
  IF comparePoints(doc, MovedFrom, MovedTo) = 1
  THEN Range(MovedTo, MovedFrom)
  ELSE Range(MovedFrom, MovedTo)

\* the signed number of characters a move by count can move
Movable(count) ==
  IF count >= 0
  THEN (IF count <= AvailableForward THEN count ELSE AvailableForward)
  ELSE (IF -count <= AvailableBackward THEN count ELSE -AvailableBackward)

\* C10: a moveStart, moveEnd or move by count characters returns the signed
\* number of characters moved, which is count when that many visible
\* characters exist in the direction and the number available otherwise,
\* and the text between the old and the new position of the boundary has
\* exactly that many characters.
C10_CharacterMoveCount ==
  CharacterMoveCase =>
    /\ ~last.raised
    /\ last.out.unitsMoved = Movable(last.args.count)
    /\ Len(DefaultText(Travelled)) =
         (IF last.out.unitsMoved < 0 THEN -last.out.unitsMoved
          ELSE last.out.unitsMoved)

\* a move forward by characters returns the number moved and travels over
\* that many characters
C10_ForwardCharacterMoveCount ==
  (CharacterMoveCase /\ last.args.count >= 0) =>
    /\ ~last.raised
    /\ last.out.unitsMoved = Movable(last.args.count)
    /\ Len(DefaultText(Travelled)) = last.out.unitsMoved

=============================================================================
